---- MODULE Spec2Model ----
(***************************************************************************)
(* A model of shoper's ShellOperator (src/shoper/shelloperator.py): the    *)
(* controlling thread that calls run() and wait(), the child processes it  *)
(* spawns, the filesystem paths the calls declare, and the pending list of *)
(* asynchronous batches (__open_proc_list).                                *)
(*                                                                         *)
(* The controlling thread is split at its blocking points (p.wait()); the  *)
(* child processes run concurrently with it: while running they may create *)
(* any path, and they exit with any return code.                           *)
(***************************************************************************)
EXTENDS Integers, Sequences, FiniteSets, TLC

\* Bounds of the model: the number of run() calls of one behaviour, and the
\* number of Popen calls of one behaviour.
MaxRuns == 2
MaxProcs == 2

\* The filesystem paths a call may declare as its inputs or outputs.
Paths == {"a", "b"}

\* What a path holds: nothing, a file or a directory that was there before
\* the runner was constructed, or a file written by a spawned command.
Absent == "absent"
OldFile == "old"
OldDir == "dir"
NewFile == "new"
Contents == {Absent, OldFile, OldDir, NewFile}

Pids == 1..MaxProcs
ReturnCodes == {0, 1}

VARIABLES
    fs,              \* [Paths -> Contents]: the filesystem
    open_proc_list,  \* self.__open_proc_list: sequence of batch records
    proc,            \* [Pids -> [status, returncode]]: the Popen handles
    spawned,         \* how many processes Popen has started so far
    runs,            \* how many times run() was called so far
    pc,              \* where the controlling thread is
    call,            \* the call in progress: the arguments it has read or still reads
    procs,           \* run(): the handles collected so far by the synchronous loop
    bi,              \* wait(): index of the batch d being processed
    pi,              \* wait(): index in d["procs"] of the process p being waited on
    result,          \* how the call that has just returned did so
    output_found,    \* run(): the declared outputs found to exist, lines 185-187
    waited,          \* history: the batches wait() has waited on a process of
    validated,       \* history: the batches wait() has validated without error
    log_txt,         \* self.log_txt: whether a log path is configured
    quiet,           \* self.quiet
    open_files,      \* the file handles the runner has opened and not closed
    clear_log_txt,   \* self.clear_log_txt
    logfs,           \* [{LogPath} -> Contents]: what is at the log path
    log,             \* the text of the log file: a sequence of lines and chunks
    stdout,          \* what has been written to standard output, in order
    fr,              \* _shell_c: how far fr has read the log (0: no fr)
    sink             \* [Pids -> [stdout, stderr]]: where each process writes

history == <<output_found, waited, validated>>

\* The fields of the dataclass that no method assigns.
config == <<log_txt, quiet, clear_log_txt>>

\* The log file, standard output and the streams of the processes.
io == <<logfs, log, stdout, fr, sink>>

vars == <<fs, open_proc_list, proc, spawned, runs, pc, call, procs, bi, pi,
          result, history, config, open_files, io>>

----------------------------------------------------------------------------
(* Pure helpers.                                                           *)

Exists(f, p) == f[p] # Absent

IsDir(f, p) == f[p] = OldDir

\* _remove_files_or_dirs unlinking files and leaving directories alone.
RemoveFiles(f, paths) ==
    [p \in DOMAIN f |->
        IF p \in paths /\ Exists(f, p) /\ ~IsDir(f, p) THEN Absent ELSE f[p]]

\* _remove_files_or_dirs removing directories and leaving files alone.
RemoveDirs(f, paths) ==
    [p \in DOMAIN f |-> IF p \in paths /\ IsDir(f, p) THEN Absent ELSE f[p]]

\* _remove_files_or_dirs: rmtree for a directory, unlink for any other
\* existing path, nothing for a path that does not exist.
RemoveFilesOrDirs(f, paths) ==
    [p \in DOMAIN f |->
        IF p \in paths
        THEN IF IsDir(f, p) THEN Absent
             ELSE IF Exists(f, p) THEN Absent
             ELSE f[p]
        ELSE f[p]]

\* A finished call: op is "run" or "wait", kind the way it returned, paths the
\* paths its error names, failed the handles its error lists, vcalls the paths
\* the validator was invoked on and accepted those it returned True for.
Outcome(op, kind, paths, failed, vcalls, accepted) ==
    [op |-> op, kind |-> kind, paths |-> paths, failed |-> failed,
     vcalls |-> vcalls, accepted |-> accepted]

NoResult == Outcome("none", "none", {}, {}, {}, {})

\* _validate_outputs raising output-not-found only when no declared output
\* exists.
ValidateOutputsIfNoneFound(f, files_or_dirs, func, remove_if_failed, verdict, op) ==
    LET f_found == {p \in files_or_dirs : Exists(f, p)}
        f_validated == {p \in f_found : p \in verdict}
    IN  IF f_found = {}
        THEN [out |-> Outcome(op, "OutputNotFound", files_or_dirs, {}, {}, {}),
              fs |-> f]
        ELSE IF func /\ f_found \ f_validated # {}
        THEN [out |-> Outcome(op, "OutputNotValidated", f_found \ f_validated,
                              {}, f_found, f_validated),
              fs |-> IF remove_if_failed
                     THEN RemoveFilesOrDirs(f, f_found) ELSE f]
        ELSE [out |-> Outcome(op, "ok", {}, {}, {}, {}), fs |-> f]

\* _validate_outputs applying remove_if_failed whether or not it fails.
ValidateOutputsRemovingAlways(f, files_or_dirs, func, remove_if_failed, verdict, op) ==
    LET f_found == {p \in files_or_dirs : Exists(f, p)}
        f_not_found == files_or_dirs \ f_found
        f_validated == {p \in f_found : p \in verdict}
        kind == IF f_not_found # {} THEN "OutputNotFound"
                ELSE IF func /\ f_found \ f_validated # {}
                THEN "OutputNotValidated" ELSE "ok"
    IN  [out |-> Outcome(op, kind,
                         IF kind = "OutputNotFound" THEN f_not_found
                         ELSE f_found \ f_validated, {}, {}, {}),
         fs |-> IF remove_if_failed
                THEN RemoveFilesOrDirs(f, f_found) ELSE f]

\* _validate_outputs removing, of the outputs found, the rejected ones only.
ValidateOutputsRemovingRejected(f, files_or_dirs, func, remove_if_failed, verdict, op) ==
    LET f_found == {p \in files_or_dirs : Exists(f, p)}
        f_not_found == files_or_dirs \ f_found
        f_validated == {p \in f_found : p \in verdict}
        f_not_validated == f_found \ f_validated
    IN  IF f_not_found # {}
        THEN [out |-> Outcome(op, "OutputNotFound", f_not_found, {}, {}, {}),
              fs |-> IF remove_if_failed
                     THEN RemoveFilesOrDirs(f, f_found) ELSE f]
        ELSE IF func /\ f_not_validated # {}
        THEN [out |-> Outcome(op, "OutputNotValidated", f_not_validated,
                              {}, f_found, f_validated),
              fs |-> IF remove_if_failed
                     THEN RemoveFilesOrDirs(f, f_not_validated) ELSE f]
        ELSE [out |-> Outcome(op, "ok", {}, {}, {}, {}), fs |-> f]

\* _validate_outputs invoking the validator before it looks for missing outputs.
ValidateOutputsValidatingFirst(f, files_or_dirs, func, remove_if_failed, verdict, op) ==
    LET f_found == {p \in files_or_dirs : Exists(f, p)}
        f_not_found == files_or_dirs \ f_found
        f_asked == IF func THEN f_found ELSE {}
        f_validated == {p \in f_asked : p \in verdict}
    IN  IF f_not_found # {}
        THEN [out |-> Outcome(op, "OutputNotFound", f_not_found, {},
                              f_asked, f_validated),
              fs |-> IF remove_if_failed /\ f_found # {}
                     THEN RemoveFilesOrDirs(f, f_found) ELSE f]
        ELSE IF func /\ f_found \ f_validated # {}
        THEN [out |-> Outcome(op, "OutputNotValidated", f_found \ f_validated,
                              {}, f_found, f_validated),
              fs |-> IF remove_if_failed
                     THEN RemoveFilesOrDirs(f, f_found) ELSE f]
        ELSE [out |-> Outcome(op, "ok", {}, {}, f_asked, f_validated), fs |-> f]

\* _validate_outputs asking the validator until it rejects a path.
ValidateOutputsUntilRejected(f, files_or_dirs, func, remove_if_failed, verdict, op) ==
    LET f_found == {p \in files_or_dirs : Exists(f, p)}
        f_not_found == files_or_dirs \ f_found
        f_validated == {p \in f_found : p \in verdict}
        f_not_validated == f_found \ f_validated
        f_asked == IF f_not_validated = {} THEN f_found
                   ELSE f_validated \cup {CHOOSE p \in f_not_validated : TRUE}
    IN  IF f_not_found # {}
        THEN [out |-> Outcome(op, "OutputNotFound", f_not_found, {}, {}, {}),
              fs |-> IF remove_if_failed /\ f_found # {}
                     THEN RemoveFilesOrDirs(f, f_found) ELSE f]
        ELSE IF func
        THEN IF f_not_validated # {}
             THEN [out |-> Outcome(op, "OutputNotValidated", f_asked \ f_validated,
                                   {}, f_asked, f_validated),
                   fs |-> IF remove_if_failed
                          THEN RemoveFilesOrDirs(f, f_found) ELSE f]
             ELSE [out |-> Outcome(op, "ok", {}, {}, f_found, f_validated),
                   fs |-> f]
        ELSE [out |-> Outcome(op, "ok", {}, {}, {}, {}), fs |-> f]

\* _validate_outputs leaving the outputs it found when another is missing.
ValidateOutputsKeepingFound(f, files_or_dirs, func, remove_if_failed, verdict, op) ==
    LET f_found == {p \in files_or_dirs : Exists(f, p)}
        f_not_found == files_or_dirs \ f_found
        f_validated == {p \in f_found : p \in verdict}
        f_not_validated == f_found \ f_validated
    IN  IF f_not_found # {}
        THEN [out |-> Outcome(op, "OutputNotFound", f_not_found, {}, {}, {}),
              fs |-> f]
        ELSE IF func
        THEN IF f_not_validated # {}
             THEN [out |-> Outcome(op, "OutputNotValidated", f_not_validated,
                                   {}, f_found, f_validated),
                   fs |-> IF remove_if_failed
                          THEN RemoveFilesOrDirs(f, f_found) ELSE f]
             ELSE [out |-> Outcome(op, "ok", {}, {}, f_found, f_validated),
                   fs |-> f]
        ELSE [out |-> Outcome(op, "ok", {}, {}, {}, {}), fs |-> f]

\* _validate_outputs. verdict is the set of paths for which the caller's
\* validator returns True (it is asked only about the paths in f_found).
\* The value is the outcome and the filesystem left behind.
ValidateOutputs(f, files_or_dirs, func, remove_if_failed, verdict, op) ==
    LET f_all == files_or_dirs
        f_found == {p \in f_all : Exists(f, p)}
        f_not_found == f_all \ f_found
        f_validated == {p \in f_found : p \in verdict}
        f_not_validated == f_found \ f_validated
    IN  IF f_not_found # {}
        THEN [out |-> Outcome(op, "OutputNotFound", f_not_found, {}, {}, {}),
              fs |-> IF remove_if_failed /\ f_found # {}
                     THEN RemoveFilesOrDirs(f, f_found) ELSE f]
        ELSE IF func
        THEN IF f_not_validated # {}
             THEN [out |-> Outcome(op, "OutputNotValidated", f_not_validated,
                                   {}, f_found, f_validated),
                   fs |-> IF remove_if_failed
                          THEN RemoveFilesOrDirs(f, f_found) ELSE f]
             ELSE [out |-> Outcome(op, "ok", {}, {}, f_found, f_validated),
                   fs |-> f]
        ELSE [out |-> Outcome(op, "ok", {}, {}, {}, {}), fs |-> f]

\* _validate_results without the removal of the outputs of failed commands.
ValidateResultsKeepingOutputs(f, ps, output_files_or_dirs, output_validator, remove_if_failed, verdict, op) ==
    IF \E i \in DOMAIN ps : proc[ps[i]].returncode # 0
    THEN [out |-> Outcome(op, "SubprocessError", {},
                          {ps[i] : i \in {j \in DOMAIN ps : proc[ps[j]].returncode # 0}},
                          {}, {}),
          fs |-> f]
    ELSE IF output_files_or_dirs # {}
    THEN ValidateOutputs(f, output_files_or_dirs, output_validator,
                         remove_if_failed, verdict, op)
    ELSE [out |-> Outcome(op, "ok", {}, {}, {}, {}), fs |-> f]

\* _validate_results looking at the return code of the first handle only.
ValidateResultsOfFirst(f, ps, output_files_or_dirs, output_validator, remove_if_failed, verdict, op) ==
    IF ps # <<>> /\ proc[ps[1]].returncode # 0
    THEN [out |-> Outcome(op, "SubprocessError", {}, {ps[1]}, {}, {}),
          fs |-> IF output_files_or_dirs # {} /\ remove_if_failed
                 THEN RemoveFilesOrDirs(f, output_files_or_dirs) ELSE f]
    ELSE IF output_files_or_dirs # {}
    THEN ValidateOutputs(f, output_files_or_dirs, output_validator,
                         remove_if_failed, verdict, op)
    ELSE [out |-> Outcome(op, "ok", {}, {}, {}, {}), fs |-> f]

\* _validate_results listing every handle of the batch in its error.
ValidateResultsListingAll(f, ps, output_files_or_dirs, output_validator, remove_if_failed, verdict, op) ==
    IF \E i \in DOMAIN ps : proc[ps[i]].returncode # 0
    THEN [out |-> Outcome(op, "SubprocessError", {}, {ps[i] : i \in DOMAIN ps},
                          {}, {}),
          fs |-> IF output_files_or_dirs # {} /\ remove_if_failed
                 THEN RemoveFilesOrDirs(f, output_files_or_dirs) ELSE f]
    ELSE IF output_files_or_dirs # {}
    THEN ValidateOutputs(f, output_files_or_dirs, output_validator,
                         remove_if_failed, verdict, op)
    ELSE [out |-> Outcome(op, "ok", {}, {}, {}, {}), fs |-> f]

\* _validate_results validating the outputs before it looks at return codes.
ValidateResultsOutputsFirst(f, ps, output_files_or_dirs, output_validator, remove_if_failed, verdict, op) ==
    LET o == IF output_files_or_dirs # {}
             THEN ValidateOutputs(f, output_files_or_dirs, output_validator,
                                  remove_if_failed, verdict, op)
             ELSE [out |-> Outcome(op, "ok", {}, {}, {}, {}), fs |-> f]
        p_failed == {ps[i] : i \in {j \in DOMAIN ps : proc[ps[j]].returncode # 0}}
    IN  IF o.out.kind # "ok" \/ p_failed = {}
        THEN o
        ELSE [out |-> Outcome(op, "SubprocessError", {}, p_failed,
                              o.out.vcalls, o.out.accepted),
              fs |-> IF output_files_or_dirs # {} /\ remove_if_failed
                     THEN RemoveFilesOrDirs(f, output_files_or_dirs) ELSE f]

\* _validate_results on the handles ps (a sequence of pids).
ValidateResults(f, ps, output_files_or_dirs, output_validator, remove_if_failed, verdict, op) ==
    LET p_failed == {ps[i] : i \in {j \in DOMAIN ps : proc[ps[j]].returncode # 0}}
    IN  IF p_failed # {}
        THEN [out |-> Outcome(op, "SubprocessError", {}, p_failed, {}, {}),
              fs |-> IF output_files_or_dirs # {} /\ remove_if_failed
                     THEN RemoveFilesOrDirs(f, output_files_or_dirs) ELSE f]
        ELSE IF output_files_or_dirs # {}
        THEN ValidateOutputs(f, output_files_or_dirs, output_validator,
                             remove_if_failed, verdict, op)
        ELSE [out |-> Outcome(op, "ok", {}, {}, {}, {}), fs |-> f]

\* The verdicts a validator can give on the declared outputs: any, when there
\* is a validator; without one nothing is asked.
Verdicts(output_files_or_dirs, output_validator) ==
    IF output_validator THEN SUBSET output_files_or_dirs ELSE {{}}

----------------------------------------------------------------------------
(* The arguments of run().                                                 *)

\* n is the number of command lines in args.
Args ==
    [op : {"run"},
     input_files_or_dirs : SUBSET Paths,
     output_files_or_dirs : SUBSET Paths,
     output_validator : BOOLEAN,
     asynchronous : BOOLEAN,
     remove_if_failed : BOOLEAN,
     remove_previous : BOOLEAN,
     skip_if_exist : BOOLEAN,
     n : 1..MaxProcs]

\* No call in progress.
NoCall ==
    [op |-> "none", input_files_or_dirs |-> {}, output_files_or_dirs |-> {},
     output_validator |-> FALSE, asynchronous |-> FALSE,
     remove_if_failed |-> FALSE, remove_previous |-> FALSE,
     skip_if_exist |-> FALSE, n |-> 0]

\* A run() that returns at its input check has read input_files_or_dirs only.
ReadInputs(a) ==
    [NoCall EXCEPT !.op = "run", !.input_files_or_dirs = a.input_files_or_dirs]

\* A run() that is skipped has read these three arguments only.
ReadForSkip(a) ==
    [NoCall EXCEPT !.op = "run",
                   !.input_files_or_dirs = a.input_files_or_dirs,
                   !.output_files_or_dirs = a.output_files_or_dirs,
                   !.skip_if_exist = a.skip_if_exist]

\* The arguments run() still reads once its first command is spawned.
StillRead(a) ==
    [a EXCEPT !.input_files_or_dirs = {}, !.remove_previous = FALSE,
              !.skip_if_exist = FALSE]

\* run(), lines 180-188: the existence of the declared inputs and outputs.
InputFound(f, a) == [p \in a.input_files_or_dirs |-> Exists(f, p)]
OutputFound(f, a) == [p \in a.output_files_or_dirs |-> Exists(f, p)]
All(found) == \A p \in DOMAIN found : found[p]

\* The input check failing only when none of the declared inputs exists.
InputMissingIfNoneFound(f, a) ==
    a.input_files_or_dirs # {} /\ \A p \in a.input_files_or_dirs : ~Exists(f, p)

\* run(), line 189: the input check fails.
InputMissing(f, a) ==
    a.input_files_or_dirs # {} /\ ~All(InputFound(f, a))

\* The call skipped only when remove_previous is not set.
SkippedUnlessRemovePrevious(f, a) ==
    /\ a.input_files_or_dirs # {} => All(InputFound(f, a))
    /\ a.output_files_or_dirs # {} /\ All(OutputFound(f, a)) /\ a.skip_if_exist
    /\ ~a.remove_previous

\* The call skipped whenever no declared output is missing, none declared
\* included.
SkippedIfNoneMissing(f, a) ==
    /\ a.input_files_or_dirs # {} => All(InputFound(f, a))
    /\ All(OutputFound(f, a)) /\ a.skip_if_exist

\* The call skipped as soon as one declared output exists.
SkippedIfAnyFound(f, a) ==
    /\ a.input_files_or_dirs # {} => All(InputFound(f, a))
    /\ \E p \in a.output_files_or_dirs : Exists(f, p)
    /\ a.skip_if_exist

\* The call skipped also when a pending batch declares the same outputs.
SkippedOrPending(f, a) ==
    /\ a.input_files_or_dirs # {} => All(InputFound(f, a))
    /\ a.output_files_or_dirs # {} /\ a.skip_if_exist
    /\ \/ All(OutputFound(f, a))
       \/ \E i \in DOMAIN open_proc_list :
             open_proc_list[i].output_files_or_dirs = a.output_files_or_dirs

\* run(), line 194: the call is skipped.
Skipped(f, a) ==
    /\ ~InputMissing(f, a)
    /\ a.output_files_or_dirs # {} /\ All(OutputFound(f, a)) /\ a.skip_if_exist

\* run(), lines 197-198: the filesystem after remove_previous.
AfterRemovePrevious(f, a) ==
    IF a.remove_previous
    THEN RemoveFilesOrDirs(f, a.output_files_or_dirs) ELSE f

\* The file handles of the runner, counted by the local variable that holds
\* them: fw and fr of _shell_c, fo of _popen.
NoFiles == [fw |-> 0, fr |-> 0, fo |-> 0]

\* _shell_c, lines 446-461: the handles it opens before Popen. fw is the log
\* file (append) or, without log and with quiet, the null device; fr reads
\* the log file when the output is echoed.
ShellCOpens(h) ==
    [h EXCEPT !.fw = @ + (IF log_txt \/ quiet THEN 1 ELSE 0),
              !.fr = @ + (IF log_txt /\ ~quiet THEN 1 ELSE 0)]

\* _shell_c, lines 472-483: fr.close() and fw.close() for the handles opened.
ShellCCloses(h) ==
    [h EXCEPT !.fw = @ - (IF log_txt \/ quiet THEN 1 ELSE 0),
              !.fr = @ - (IF log_txt /\ ~quiet THEN 1 ELSE 0)]

\* _popen, lines 379-387, called n times: each call opens fo, the log file
\* (append) or the null device, and passes it to Popen.
PopenOpens(h, n) == [h EXCEPT !.fo = @ + n]

\* wait(), line 260: p.stdout and p.stderr are closed when they are set. They
\* are the pipes Popen creates for stdout=PIPE and stderr=PIPE; _popen passes
\* the file fo, so both are None and no handle is closed.
ClosePipes(h) == h

\* The path log_txt names when it is set.
LogPath == "log"

\* What _shell_c and _popen write and print for the command of process p:
\* command_line = prompt + arg.
CommandLine(p) == <<"command_line", p>>

\* os.linesep written before the command line when the log file exists.
LineSep == <<"linesep", 0>>

\* A chunk of output of process p.
Chunk(p) == <<"output", p>>

\* _shell_c lines 446-452 and _popen lines 378-384: the log path after the
\* command line is written: mode "w" creates the file when nothing is there.
LogCreated(lf) ==
    [l \in DOMAIN lf |-> IF Exists(lf, l) THEN lf[l] ELSE NewFile]

\* The log file opened with mode "w" whether it exists or not.
LogWrittenAnew(lf, text, p) == <<CommandLine(p)>>

\* The text of the log file after the command line of p is written: appended
\* after a line separator when the path exists (mode "a"), the only content
\* of the file when it does not (mode "w").
LogWritten(lf, text, p) ==
    IF Exists(lf, LogPath)
    THEN text \o <<LineSep, CommandLine(p)>>
    ELSE <<CommandLine(p)>>

\* open() on the log path raises IsADirectoryError, an OSError, when the path
\* is a directory.
LogUnwritable == log_txt /\ IsDir(logfs, LogPath)

\* _shell_c choosing the null device whenever quiet is set.
ShellCSinkQuietFirst ==
    LET fw == IF quiet THEN "null" ELSE IF log_txt THEN "log" ELSE "inherit"
    IN  [stdout |-> fw, stderr |-> fw]

\* _shell_c, lines 446-455 and 462-467: what Popen gets as stdout and stderr:
\* fw, which is the log file, the null device, or None (the streams of the
\* runner are inherited).
ShellCSink ==
    LET fw == IF log_txt THEN "log" ELSE IF quiet THEN "null" ELSE "inherit"
    IN  [stdout |-> fw, stderr |-> fw]

\* _popen, lines 378-393: what Popen gets as stdout and stderr: fo, which is
\* the log file or the null device.
PopenSink ==
    LET fo == IF log_txt THEN "log" ELSE "null"
    IN  [stdout |-> fo, stderr |-> fo]

NoSink == [stdout |-> "none", stderr |-> "none"]

\* _shell_c, lines 457-461: fr is opened and reads the whole log when there
\* is a log and the runner is not quiet.
Tee == log_txt /\ ~quiet

\* fr opened and left at the start of the log.
FrAtStart(text) == 0

\* _shell_c, lines 458-459: fr is opened and fr.read() moves it to the end of
\* the log as it is then, the command line just written included.
FrOpened(text) == Len(text)

\* What fr.read() returns: the text between its position and the end.
Unread(text, pos) == SubSeq(text, pos + 1, Len(text))

\* A Popen handle: returncode is None (here -1) until the process has exited.
Running == [status |-> "running", returncode |-> -1]
Exited(rc) == [status |-> "exited", returncode |-> rc]
NotSpawned == [status |-> "none", returncode |-> -1]

\* A handle nothing refers to any more: an exited one is forgotten.
Forget(pr, ps) ==
    [p \in Pids |-> IF p \in ps /\ pr[p].status = "exited"
                    THEN NotSpawned ELSE pr[p]]

Range(s) == {s[i] : i \in DOMAIN s}

----------------------------------------------------------------------------
Init ==
    /\ fs \in [Paths -> {Absent, OldFile, OldDir}]
    /\ open_proc_list = <<>>
    /\ proc = [p \in Pids |-> NotSpawned]
    /\ spawned = 0
    /\ runs = 0
    /\ pc = "idle"
    /\ call = NoCall
    /\ procs = <<>>
    /\ bi = 0
    /\ pi = 0
    /\ result = NoResult
    /\ output_found = {}
    /\ waited = {}
    /\ validated = {}
    /\ log_txt = FALSE
    /\ quiet = FALSE
    /\ open_files = NoFiles
    /\ clear_log_txt = FALSE
    /\ logfs = [l \in {LogPath} |-> Absent]
    /\ log = <<>>
    /\ stdout = <<>>
    /\ fr = 0
    /\ sink = [p \in Pids |-> NoSink]

----------------------------------------------------------------------------
(* Child processes.                                                        *)

\* The handles the runner still refers to.
Referenced ==
    Range(procs) \cup UNION {Range(open_proc_list[i].procs) : i \in DOMAIN open_proc_list}

\* A running command creates (or overwrites) a path.
ProcWrite(p, f) ==
    /\ proc[p].status = "running"
    /\ fs[f] # NewFile
    /\ fs' = [fs EXCEPT ![f] = NewFile]
    /\ UNCHANGED <<io, config, open_files, runs, open_proc_list, proc, spawned, pc, call, procs, bi, pi,
                   result, history>>

\* A running command exits with return code rc.
ProcExit(p, rc) ==
    /\ proc[p].status = "running"
    /\ proc' = [proc EXCEPT ![p] = IF p \in Referenced THEN Exited(rc) ELSE NotSpawned]
    /\ UNCHANGED <<io, config, open_files, runs, fs, open_proc_list, spawned, pc, call, procs, bi, pi,
                   result, history>>

----------------------------------------------------------------------------
(* run().                                                                  *)

\* What subprocess.Popen does: it starts the process, or it raises a
\* SubprocessError (run() catches it in synchronous mode) or an OSError.
SpawnErrors == {"SubprocessError", "OSError"}

\* run(), lines 189-193: a declared input is missing.
RunInputNotFound(a) ==
    /\ pc = "idle"
    /\ runs < MaxRuns
    /\ runs' = runs + 1
    /\ InputMissing(fs, a)
    /\ call' = a
    /\ result' = Outcome("run", "InputNotFound",
                         {p \in a.input_files_or_dirs : ~InputFound(fs, a)[p]},
                         {}, {}, {})
    /\ pc' = "returned"
    /\ output_found' = {p \in a.output_files_or_dirs : OutputFound(fs, a)[p]}
    /\ UNCHANGED <<io, config, open_files, fs, open_proc_list, proc, spawned, procs, bi, pi, waited, validated>>

\* A skipped run() asking a validator, which rejects them, about the outputs
\* it found.
RunSkipValidating(a) ==
    LET r == ValidateOutputs(fs, a.output_files_or_dirs, TRUE, TRUE, {}, "run")
    IN  /\ pc = "idle"
        /\ runs < MaxRuns
        /\ runs' = runs + 1
        /\ ~InputMissing(fs, a)
        /\ Skipped(fs, a)
        /\ call' = a
        /\ result' = r.out
        /\ fs' = r.fs
        /\ pc' = "returned"
        /\ output_found' = {p \in a.output_files_or_dirs : OutputFound(fs, a)[p]}
        /\ UNCHANGED <<io, config, open_files, open_proc_list, proc, spawned, procs, bi, pi, waited, validated>>

\* A skipped run() removing the outputs it found.
RunSkipRemoving(a) ==
    /\ pc = "idle"
    /\ runs < MaxRuns
    /\ runs' = runs + 1
    /\ ~InputMissing(fs, a)
    /\ Skipped(fs, a)
    /\ call' = a
    /\ result' = Outcome("run", "ok", {}, {}, {}, {})
    /\ pc' = "returned"
    /\ output_found' = {p \in a.output_files_or_dirs : OutputFound(fs, a)[p]}
    /\ fs' = RemoveFilesOrDirs(fs, a.output_files_or_dirs)
    /\ UNCHANGED <<io, config, open_files, open_proc_list, proc, spawned, procs, bi, pi, waited, validated>>

\* run(), lines 194-195: every declared output exists and skip_if_exist.
RunSkip(a) ==
    /\ pc = "idle"
    /\ runs < MaxRuns
    /\ runs' = runs + 1
    /\ ~InputMissing(fs, a)
    /\ Skipped(fs, a)
    /\ call' = a
    /\ result' = Outcome("run", "ok", {}, {}, {}, {})
    /\ pc' = "returned"
    /\ output_found' = {p \in a.output_files_or_dirs : OutputFound(fs, a)[p]}
    /\ UNCHANGED <<io, config, open_files, fs, open_proc_list, proc, spawned, procs, bi, pi, waited, validated>>

\* run(), lines 196-203: the call is neither rejected nor skipped;
\* remove_previous, and on to the commands.
RunStart(a) ==
    /\ pc = "idle"
    /\ runs < MaxRuns
    /\ runs' = runs + 1
    /\ ~InputMissing(fs, a) /\ ~Skipped(fs, a)
    /\ spawned + a.n <= MaxProcs
    /\ fs' = AfterRemovePrevious(fs, a)
    /\ call' = a
    /\ procs' = <<>>
    /\ pc' = "spawn"
    /\ output_found' = {p \in a.output_files_or_dirs : OutputFound(fs, a)[p]}
    /\ UNCHANGED <<io, config, open_files, open_proc_list, proc, spawned, bi, pi, result, waited, validated>>

\* The record appended without the caller's remove_if_failed.
BatchWithoutFlag(a, pids) ==
    [output_files_or_dirs |-> a.output_files_or_dirs,
     output_validator |-> a.output_validator,
     remove_if_failed |-> FALSE,
     procs |-> pids]

\* run(), lines 205-213: the record appended to __open_proc_list.
Batch(a, pids) ==
    [output_files_or_dirs |-> a.output_files_or_dirs,
     output_validator |-> a.output_validator,
     remove_if_failed |-> a.remove_if_failed,
     procs |-> pids]

\* How many times _popen is called when k commands are spawned before err.
PopenCalls(k, err) == IF err = "ok" THEN k ELSE k + 1

\* How many of these calls write the command line to the log (when there is
\* one) and open fo: all of them, unless the log path cannot be written.
PopenWrites(k, err) == IF LogUnwritable THEN 0 ELSE PopenCalls(k, err)

\* The text of the log after n calls of _popen, the first for process p.
RECURSIVE PopenLog(_, _, _, _)
PopenLog(lf, text, p, n) ==
    IF n = 0 THEN text
    ELSE PopenLog(LogCreated(lf), LogWritten(lf, text, p), p + 1, n - 1)

\* The asynchronous branch queueing the processes spawned before Popen raised.
RunAsyncKeepingSpawned(k, err) ==
    LET pids == [i \in 1..k |-> spawned + i]
    IN  /\ pc = "spawn"
        /\ call.asynchronous
        /\ (k = call.n) = (err = "ok")
        /\ proc' = [p \in Pids |-> IF p \in Range(pids) THEN Running ELSE proc[p]]
        /\ spawned' = spawned + k
        /\ open_proc_list' =
              IF k > 0
              THEN Append(open_proc_list, Batch(call, pids))
              ELSE open_proc_list
        /\ call' = StillRead(call)
        /\ result' = Outcome("run", err, {}, {}, {}, {})
        /\ pc' = "returned"
        /\ LogUnwritable => k = 0 /\ err = "OSError"
        /\ open_files' = PopenOpens(open_files, PopenWrites(k, err))
        /\ stdout' = stdout \o [i \in 1..PopenCalls(k, err) |-> CommandLine(spawned + i)]
        /\ logfs' = IF log_txt /\ PopenWrites(k, err) > 0 THEN LogCreated(logfs) ELSE logfs
        /\ log' = IF log_txt THEN PopenLog(logfs, log, spawned + 1, PopenWrites(k, err)) ELSE log
        /\ sink' = [p \in Pids |-> IF p \in Range(pids) THEN PopenSink ELSE sink[p]]
        /\ UNCHANGED <<fr, config, runs, fs, procs, bi, pi, history>>

\* run(), lines 204-213, asynchronous=True: one _popen per command; k of the
\* call.n commands are spawned before Popen raises err (k = call.n: none
\* raises), and the batch is appended only when the list of handles is
\* complete. The call returns.
RunAsync(k, err) ==
    LET pids == [i \in 1..k |-> spawned + i]
    IN  /\ pc = "spawn"
        /\ call.asynchronous
        /\ (k = call.n) = (err = "ok")
        /\ proc' = [p \in Pids |-> IF p \in Range(pids) THEN Running ELSE proc[p]]
        /\ spawned' = spawned + k
        /\ open_proc_list' =
              IF err = "ok"
              THEN Append(open_proc_list, Batch(call, pids))
              ELSE open_proc_list
        /\ call' = StillRead(call)
        /\ result' = Outcome("run", err, {}, {}, {}, {})
        /\ pc' = "returned"
        /\ LogUnwritable => k = 0 /\ err = "OSError"
        /\ open_files' = PopenOpens(open_files, PopenWrites(k, err))
        /\ stdout' = stdout \o [i \in 1..PopenCalls(k, err) |-> CommandLine(spawned + i)]
        /\ logfs' = IF log_txt /\ PopenWrites(k, err) > 0 THEN LogCreated(logfs) ELSE logfs
        /\ log' = IF log_txt THEN PopenLog(logfs, log, spawned + 1, PopenWrites(k, err)) ELSE log
        /\ sink' = [p \in Pids |-> IF p \in Range(pids) THEN PopenSink ELSE sink[p]]
        /\ UNCHANGED <<fr, config, runs, fs, procs, bi, pi, history>>

\* The except clause removing the outputs whatever remove_if_failed is.
AfterSpawnErrorAlways(f, a, err) ==
    IF err = "SubprocessError" /\ a.output_files_or_dirs # {}
    THEN RemoveFilesOrDirs(f, a.output_files_or_dirs) ELSE f

\* The except clause re-raising without removing anything.
AfterSpawnErrorKeeping(f, a, err) == f

\* The except clause of run(), lines 220-223, on the filesystem f.
AfterSpawnError(f, a, err) ==
    IF err = "SubprocessError" /\ a.output_files_or_dirs # {} /\ a.remove_if_failed
    THEN RemoveFilesOrDirs(f, a.output_files_or_dirs) ELSE f

\* _shell_c up to and including its Popen, lines 443-471, for the next command
\* of the synchronous loop: the process is started and the thread blocks on
\* it, or Popen raises and run() handles the error, lines 220-223.
ShellCSpawn(err) ==
    /\ pc = "spawn"
    /\ ~call.asynchronous
    /\ LogUnwritable => err = "OSError"
    /\ call' = StillRead(call)
    /\ IF err = "ok"
       THEN /\ proc' = [proc EXCEPT ![spawned + 1] = Running]
            /\ spawned' = spawned + 1
            /\ procs' = Append(procs, spawned + 1)
            /\ sink' = [sink EXCEPT ![spawned + 1] = ShellCSink]
            /\ pc' = "shell_c"
            /\ UNCHANGED <<fs, result>>
       ELSE /\ proc' = Forget(proc, Range(procs))
            /\ procs' = <<>>
            /\ pc' = "returned"
            /\ fs' = AfterSpawnError(fs, call, err)
            /\ result' = Outcome("run", err, {}, {}, {}, {})
            /\ UNCHANGED <<spawned, sink>>
    /\ stdout' = Append(stdout, CommandLine(spawned + 1))
    /\ IF LogUnwritable
       THEN UNCHANGED <<open_files, logfs, log, fr>>
       ELSE /\ open_files' = ShellCOpens(open_files)
            /\ logfs' = IF log_txt THEN LogCreated(logfs) ELSE logfs
            /\ log' = IF log_txt THEN LogWritten(logfs, log, spawned + 1) ELSE log
            /\ fr' = IF Tee THEN FrOpened(log') ELSE 0
    /\ UNCHANGED <<config, runs, open_proc_list, bi, pi, history>>

\* The loop of run() going on to validation when a command has failed.
ShellCReturnStoppingAtFailure ==
    /\ pc = "shell_c"
    /\ proc[procs[Len(procs)]].status = "exited"
    /\ pc' = IF Len(procs) < call.n /\ proc[procs[Len(procs)]].returncode = 0
             THEN "spawn" ELSE "validate"
    /\ stdout' = IF Tee THEN stdout \o Unread(log, fr) ELSE stdout
    /\ fr' = 0
    /\ open_files' = ShellCCloses(open_files)
    /\ UNCHANGED <<logfs, log, sink, config, runs, fs, open_proc_list, proc, spawned, call,
                   procs, bi, pi, result, history>>

\* _shell_c returning the handle without waiting for the process.
ShellCReturnAtOnce ==
    /\ pc = "shell_c"
    /\ pc' = IF Len(procs) < call.n THEN "spawn" ELSE "validate"
    /\ stdout' = IF Tee THEN stdout \o Unread(log, fr) ELSE stdout
    /\ fr' = 0
    /\ open_files' = ShellCCloses(open_files)
    /\ UNCHANGED <<logfs, log, sink, config, runs, fs, open_proc_list, proc, spawned, call,
                   procs, bi, pi, result, history>>

\* _shell_c, lines 471-484: the process has exited; the last fr.read() is
\* written to standard output, the handles are closed and _shell_c returns
\* the process; the loop of run() goes on to the next command or to validation.
ShellCReturn ==
    /\ pc = "shell_c"
    /\ proc[procs[Len(procs)]].status = "exited"
    /\ pc' = IF Len(procs) < call.n THEN "spawn" ELSE "validate"
    /\ stdout' = IF Tee THEN stdout \o Unread(log, fr) ELSE stdout
    /\ fr' = 0
    /\ open_files' = ShellCCloses(open_files)
    /\ UNCHANGED <<logfs, log, sink, config, runs, fs, open_proc_list, proc, spawned, call,
                   procs, bi, pi, result, history>>

\* run(), lines 224-229: the synchronous call validates and returns.
RunValidate(verdict) ==
    /\ pc = "validate"
    /\ LET r == ValidateResults(fs, procs, call.output_files_or_dirs,
                                call.output_validator, call.remove_if_failed,
                                verdict, "run")
       IN  /\ fs' = r.fs
           /\ result' = r.out
    /\ proc' = Forget(proc, Range(procs))
    /\ procs' = <<>>
    /\ pc' = "returned"
    /\ UNCHANGED <<io, config, open_files, runs, open_proc_list, spawned, call, bi, pi, history>>

----------------------------------------------------------------------------
(* wait().                                                                 *)

WaitCall == [NoCall EXCEPT !.op = "wait"]

\* wait() raising when nothing is pending.
WaitEmptyRaising ==
    /\ pc = "idle"
    /\ open_proc_list = <<>>
    /\ call' = [NoCall EXCEPT !.op = "wait"]
    /\ result' = Outcome("wait", "RuntimeError", {}, {}, {}, {})
    /\ pc' = "returned"
    /\ UNCHANGED <<io, config, open_files, runs, fs, open_proc_list, proc, spawned,
                   procs, bi, pi, history>>

\* wait(), lines 268-269: nothing is pending.
WaitEmpty ==
    /\ pc = "idle"
    /\ open_proc_list = <<>>
    /\ call' = WaitCall
    /\ result' = Outcome("wait", "ok", {}, {}, {}, {})
    /\ pc' = "returned"
    /\ UNCHANGED <<io, config, open_files, runs, fs, open_proc_list, proc, spawned, procs, bi, pi,
                   history>>

\* wait() starting at the batch queued last.
WaitStartAtLast ==
    /\ pc = "idle"
    /\ open_proc_list # <<>>
    /\ call' = [NoCall EXCEPT !.op = "wait"]
    /\ pc' = "wait"
    /\ bi' = Len(open_proc_list)
    /\ pi' = 1
    /\ UNCHANGED <<io, config, open_files, runs, fs, open_proc_list, proc, spawned, procs, result,
                   history>>

\* wait(), lines 256-259: the loops start and block on the first process.
WaitStart ==
    /\ pc = "idle"
    /\ open_proc_list # <<>>
    /\ call' = WaitCall
    /\ pc' = "wait"
    /\ bi' = 1
    /\ pi' = 1
    /\ UNCHANGED <<io, config, open_files, runs, fs, open_proc_list, proc, spawned, procs, result, history>>

\* wait() staying at the process it has waited for.
WaitNextProcStaying ==
    /\ pc = "wait"
    /\ proc[open_proc_list[bi].procs[pi]].status = "exited"
    /\ pi < Len(open_proc_list[bi].procs)
    /\ pi' = pi
    /\ waited' = waited \cup {bi}
    /\ open_files' = ClosePipes(open_files)
    /\ UNCHANGED <<io, config, runs, fs, open_proc_list, proc, spawned, pc, call, procs, bi,
                   result, output_found, validated>>

\* wait(), lines 258-260: p.wait() returns and the inner loop goes on.
WaitNextProc ==
    /\ pc = "wait"
    /\ proc[open_proc_list[bi].procs[pi]].status = "exited"
    /\ pi < Len(open_proc_list[bi].procs)
    /\ pi' = pi + 1
    /\ waited' = waited \cup {bi}
    /\ open_files' = ClosePipes(open_files)
    /\ UNCHANGED <<io, config, runs, fs, open_proc_list, proc, spawned, pc, call, procs, bi,
                   result, output_found, validated>>

\* wait() validating every batch with what the run() called last declared.
WaitValidateAsLastBatch(verdict) ==
    LET d == open_proc_list[bi]
        last == open_proc_list[Len(open_proc_list)]
        r == ValidateResults(fs, d.procs, last.output_files_or_dirs,
                             last.output_validator, last.remove_if_failed,
                             verdict, "wait")
        all == UNION {Range(open_proc_list[i].procs) : i \in DOMAIN open_proc_list}
    IN  /\ pc = "wait"
        /\ proc[d.procs[pi]].status = "exited"
        /\ pi = Len(d.procs)
        /\ fs' = r.fs
        /\ waited' = waited \cup {bi}
        /\ validated' = IF r.out.kind = "ok" THEN validated \cup {bi} ELSE validated
        /\ IF r.out.kind # "ok"
           THEN /\ result' = r.out
                /\ pc' = "returned" /\ bi' = 0 /\ pi' = 0
                /\ UNCHANGED <<open_proc_list, proc>>
           ELSE IF bi < Len(open_proc_list)
           THEN /\ bi' = bi + 1 /\ pi' = 1
                /\ UNCHANGED <<open_proc_list, proc, pc, result>>
           ELSE /\ open_proc_list' = <<>>
                /\ proc' = Forget(proc, all)
                /\ result' = r.out
                /\ pc' = "returned" /\ bi' = 0 /\ pi' = 0
        /\ open_files' = ClosePipes(open_files)
        /\ UNCHANGED <<io, config, runs, spawned, call, procs, output_found>>

\* wait() taking the batch whose validation fails off the list.
WaitValidateDroppingFailed(verdict) ==
    LET d == open_proc_list[bi]
        r == ValidateResults(fs, d.procs, d.output_files_or_dirs,
                             d.output_validator, d.remove_if_failed,
                             verdict, "wait")
        all == UNION {Range(open_proc_list[i].procs) : i \in DOMAIN open_proc_list}
    IN  /\ pc = "wait"
        /\ proc[d.procs[pi]].status = "exited"
        /\ pi = Len(d.procs)
        /\ fs' = r.fs
        /\ waited' = waited \cup {bi}
        /\ validated' = IF r.out.kind = "ok" THEN validated \cup {bi} ELSE validated
        /\ IF r.out.kind # "ok"
           THEN /\ result' = r.out
                /\ pc' = "returned" /\ bi' = 0 /\ pi' = 0
                /\ open_proc_list' = SubSeq(open_proc_list, 1, bi - 1)
                                     \o SubSeq(open_proc_list, bi + 1, Len(open_proc_list))
                /\ proc' = Forget(proc, Range(d.procs))
           ELSE IF bi < Len(open_proc_list)
           THEN /\ bi' = bi + 1 /\ pi' = 1
                /\ UNCHANGED <<open_proc_list, proc, pc, result>>
           ELSE /\ open_proc_list' = <<>>
                /\ proc' = Forget(proc, all)
                /\ result' = r.out
                /\ pc' = "returned" /\ bi' = 0 /\ pi' = 0
        /\ open_files' = ClosePipes(open_files)
        /\ UNCHANGED <<io, config, runs, spawned, call, procs, output_found>>

\* wait() dropping the batches it has validated when a later one fails.
WaitValidateDraining(verdict) ==
    LET d == open_proc_list[bi]
        r == ValidateResults(fs, d.procs, d.output_files_or_dirs,
                             d.output_validator, d.remove_if_failed,
                             verdict, "wait")
        all == UNION {Range(open_proc_list[i].procs) : i \in DOMAIN open_proc_list}
    IN  /\ pc = "wait"
        /\ proc[d.procs[pi]].status = "exited"
        /\ pi = Len(d.procs)
        /\ fs' = r.fs
        /\ waited' = waited \cup {bi}
        /\ validated' = IF r.out.kind = "ok" THEN validated \cup {bi} ELSE validated
        /\ IF r.out.kind # "ok"
           THEN /\ result' = r.out
                /\ pc' = "returned" /\ bi' = 0 /\ pi' = 0
                /\ open_proc_list' = SubSeq(open_proc_list, bi, Len(open_proc_list))
                /\ UNCHANGED proc
           ELSE IF bi < Len(open_proc_list)
           THEN /\ bi' = bi + 1 /\ pi' = 1
                /\ UNCHANGED <<open_proc_list, proc, pc, result>>
           ELSE /\ open_proc_list' = <<>>
                /\ proc' = Forget(proc, all)
                /\ result' = r.out
                /\ pc' = "returned" /\ bi' = 0 /\ pi' = 0
        /\ open_files' = ClosePipes(open_files)
        /\ UNCHANGED <<io, config, runs, spawned, call, procs, output_found>>

\* wait(), lines 258-267: p.wait() returns for the last process of batch d,
\* which is validated; a failure raises out of wait(), a success goes on to
\* the next batch or, after the last one, empties the list.
WaitValidate(verdict) ==
    LET d == open_proc_list[bi]
        r == ValidateResults(fs, d.procs, d.output_files_or_dirs,
                             d.output_validator, d.remove_if_failed,
                             verdict, "wait")
        all == UNION {Range(open_proc_list[i].procs) : i \in DOMAIN open_proc_list}
    IN  /\ pc = "wait"
        /\ proc[d.procs[pi]].status = "exited"
        /\ pi = Len(d.procs)
        /\ fs' = r.fs
        /\ waited' = waited \cup {bi}
        /\ validated' = IF r.out.kind = "ok" THEN validated \cup {bi} ELSE validated
        /\ IF r.out.kind # "ok"
           THEN /\ result' = r.out
                /\ pc' = "returned" /\ bi' = 0 /\ pi' = 0
                /\ UNCHANGED <<open_proc_list, proc>>
           ELSE IF bi < Len(open_proc_list)
           THEN /\ bi' = bi + 1 /\ pi' = 1
                /\ UNCHANGED <<open_proc_list, proc, pc, result>>
           ELSE /\ open_proc_list' = <<>>
                /\ proc' = Forget(proc, all)
                /\ result' = r.out
                /\ pc' = "returned" /\ bi' = 0 /\ pi' = 0
        /\ open_files' = ClosePipes(open_files)
        /\ UNCHANGED <<io, config, runs, spawned, call, procs, output_found>>

\* The caller has the result of the call and may call again.
Return ==
    /\ pc = "returned"
    /\ pc' = "idle"
    /\ call' = NoCall
    /\ result' = NoResult
    /\ output_found' = {}
    /\ waited' = {}
    /\ validated' = {}
    /\ UNCHANGED <<io, config, open_files, runs, fs, open_proc_list, proc, spawned, procs, bi, pi>>

----------------------------------------------------------------------------
\* The calls the caller makes: run() with any arguments; a call that returns
\* before it reads an argument is made once, whatever that argument is.
InputChecks == {ReadInputs(a) : a \in Args}
SkipChecks == {ReadForSkip(a) : a \in Args}

Next ==
    \/ \E p \in Pids, f \in Paths : ProcWrite(p, f)
    \/ \E p \in Pids, rc \in ReturnCodes : ProcExit(p, rc)
    \/ pc = "idle" /\ \E a \in InputChecks : RunInputNotFound(a)
    \/ pc = "idle" /\ \E a \in SkipChecks : RunSkip(a)
    \/ pc = "idle" /\ \E a \in Args : RunStart(a)
    \/ \E k \in 0..MaxProcs, err \in SpawnErrors \cup {"ok"} :
          k <= call.n /\ RunAsync(k, err)
    \/ \E err \in SpawnErrors \cup {"ok"} : ShellCSpawn(err)
    \/ ShellCReturn
    \/ \E v \in SUBSET Paths :
          /\ v \in Verdicts(call.output_files_or_dirs, call.output_validator)
          /\ RunValidate(v)
    \/ WaitEmpty
    \/ WaitStart
    \/ WaitNextProc
    \/ \E v \in SUBSET Paths :
          /\ pc = "wait"
          /\ v \in Verdicts(open_proc_list[bi].output_files_or_dirs,
                            open_proc_list[bi].output_validator)
          /\ WaitValidate(v)
    \/ Return

Spec == Init /\ [][Next]_vars

\* The calls of run() by their asynchronous argument, line 204.
SyncArgs == {a \in Args : ~a.asynchronous}
AsyncArgs == {a \in Args : a.asynchronous}

\* The caller that never passes asynchronous=True: nothing is ever pending, so
\* a wait() returns at lines 268-269.
NextSync ==
    \/ \E p \in Pids, f \in Paths : ProcWrite(p, f)
    \/ \E p \in Pids, rc \in ReturnCodes : ProcExit(p, rc)
    \/ pc = "idle" /\ \E a \in InputChecks : RunInputNotFound(a)
    \/ pc = "idle" /\ \E a \in SkipChecks : RunSkip(a)
    \/ pc = "idle" /\ \E a \in SyncArgs : RunStart(a)
    \/ \E err \in SpawnErrors \cup {"ok"} : ShellCSpawn(err)
    \/ ShellCReturn
    \/ \E v \in SUBSET Paths :
          /\ v \in Verdicts(call.output_files_or_dirs, call.output_validator)
          /\ RunValidate(v)
    \/ WaitEmpty
    \/ Return

SpecSync == Init /\ [][NextSync]_vars

\* The caller that always passes asynchronous=True, and calls wait().
NextAsync ==
    \/ \E p \in Pids, f \in Paths : ProcWrite(p, f)
    \/ \E p \in Pids, rc \in ReturnCodes : ProcExit(p, rc)
    \/ pc = "idle" /\ \E a \in InputChecks : RunInputNotFound(a)
    \/ pc = "idle" /\ \E a \in SkipChecks : RunSkip(a)
    \/ pc = "idle" /\ \E a \in AsyncArgs : RunStart(a)
    \/ \E k \in 0..MaxProcs, err \in SpawnErrors \cup {"ok"} :
          k <= call.n /\ RunAsync(k, err)
    \/ WaitEmpty
    \/ WaitStart
    \/ WaitNextProc
    \/ \E v \in SUBSET Paths :
          /\ pc = "wait"
          /\ v \in Verdicts(open_proc_list[bi].output_files_or_dirs,
                            open_proc_list[bi].output_validator)
          /\ WaitValidate(v)
    \/ Return

SpecAsync == Init /\ [][NextAsync]_vars

\* The runner constructed with any log_txt and quiet, in an empty directory.
InitAnyConfig ==
    /\ fs = [p \in Paths |-> Absent]
    /\ open_proc_list = <<>>
    /\ proc = [p \in Pids |-> NotSpawned]
    /\ spawned = 0
    /\ runs = 0
    /\ pc = "idle"
    /\ call = NoCall
    /\ procs = <<>>
    /\ bi = 0
    /\ pi = 0
    /\ result = NoResult
    /\ output_found = {}
    /\ waited = {}
    /\ validated = {}
    /\ log_txt \in BOOLEAN
    /\ quiet \in BOOLEAN
    /\ open_files = NoFiles
    /\ clear_log_txt = FALSE
    /\ logfs = [l \in {LogPath} |-> Absent]
    /\ log = <<>>
    /\ stdout = <<>>
    /\ fr = 0
    /\ sink = [p \in Pids |-> NoSink]

SpecAnyConfig == InitAnyConfig /\ [][Next]_vars

----------------------------------------------------------------------------
(* The log file and the streams.                                           *)

\* Each process writes at most MaxChunks chunks of output.
MaxChunks == 1

\* What is in the log file before the runner is constructed.
OldText == << <<"old", 0>> >>

Occurrences(s, e) == Cardinality({i \in DOMAIN s : s[i] = e})

\* __post_init__ clearing the log only when it is a file.
PostInitUnlinking ==
    /\ pc = "new"
    /\ pc' = "idle"
    /\ logfs' = IF clear_log_txt /\ log_txt /\ ~IsDir(logfs, LogPath)
                THEN RemoveFilesOrDirs(logfs, {LogPath}) ELSE logfs
    /\ log' = IF Exists(logfs', LogPath) THEN log ELSE <<>>
    /\ UNCHANGED <<stdout, fr, sink, config, open_files, runs, fs, open_proc_list,
                   proc, spawned, call, procs, bi, pi, result, history>>

\* __post_init__, lines 80-85: the log path is removed when clear_log_txt
\* and log_txt are set.
PostInit ==
    /\ pc = "new"
    /\ pc' = "idle"
    /\ logfs' = IF clear_log_txt /\ log_txt
                THEN RemoveFilesOrDirs(logfs, {LogPath}) ELSE logfs
    /\ log' = IF Exists(logfs', LogPath) THEN log ELSE <<>>
    /\ UNCHANGED <<stdout, fr, sink, config, open_files, runs, fs, open_proc_list,
                   proc, spawned, call, procs, bi, pi, result, history>>

\* A running command writes a chunk to its stdout or stderr: it is appended
\* to the log file, or it appears on the standard output the command has
\* inherited; what goes to the null device is lost.
ProcOutput(p) ==
    /\ proc[p].status = "running"
    /\ \/ /\ sink[p].stdout = "log"
          /\ Occurrences(log, Chunk(p)) < MaxChunks
          /\ log' = Append(log, Chunk(p))
          /\ UNCHANGED stdout
       \/ /\ sink[p].stdout = "inherit"
          /\ Occurrences(stdout, Chunk(p)) < MaxChunks
          /\ stdout' = Append(stdout, Chunk(p))
          /\ UNCHANGED log
    /\ UNCHANGED <<logfs, fr, sink, config, open_files, runs, fs, open_proc_list,
                   proc, spawned, pc, call, procs, bi, pi, result, history>>

\* _shell_c, lines 472-475: the process is still running and what fr reads
\* is written to standard output.
TeeDrain ==
    /\ pc = "shell_c"
    /\ Tee
    /\ proc[procs[Len(procs)]].status = "running"
    /\ Unread(log, fr) # <<>>
    /\ stdout' = stdout \o Unread(log, fr)
    /\ fr' = Len(log)
    /\ UNCHANGED <<logfs, log, sink, config, open_files, runs, fs, open_proc_list,
                   proc, spawned, pc, call, procs, bi, pi, result, history>>

\* Before construction: any log_txt, quiet and clear_log_txt; the log path,
\* when there is one, holds nothing, a file or a directory; the working
\* directory is empty.
InitLogged ==
    /\ fs = [p \in Paths |-> Absent]
    /\ open_proc_list = <<>>
    /\ proc = [p \in Pids |-> NotSpawned]
    /\ spawned = 0
    /\ runs = 0
    /\ pc = "new"
    /\ call = NoCall
    /\ procs = <<>>
    /\ bi = 0
    /\ pi = 0
    /\ result = NoResult
    /\ output_found = {}
    /\ waited = {}
    /\ validated = {}
    /\ log_txt \in BOOLEAN
    /\ quiet \in BOOLEAN
    /\ clear_log_txt \in BOOLEAN
    /\ open_files = NoFiles
    /\ logfs \in [{LogPath} -> IF log_txt THEN {Absent, OldFile, OldDir} ELSE {Absent}]
    /\ log = IF logfs[LogPath] = OldFile THEN OldText ELSE <<>>
    /\ stdout = <<>>
    /\ fr = 0
    /\ sink = [p \in Pids |-> NoSink]

\* The calls of run() that declare no input and no output and leave the
\* other keyword arguments at their defaults, line 114: nothing of the
\* filesystem but the log file matters to them.
PlainArgs ==
    {a \in Args : /\ a.input_files_or_dirs = {} /\ a.output_files_or_dirs = {}
                  /\ ~a.output_validator /\ a.remove_if_failed
                  /\ ~a.remove_previous /\ a.skip_if_exist}

\* The runner constructed and then used for such calls, with the output of
\* the commands and the echo of the log followed step by step.
NextLogged ==
    \/ PostInit
    \/ \E p \in Pids : ProcOutput(p)
    \/ TeeDrain
    \/ \E p \in Pids, rc \in ReturnCodes : ProcExit(p, rc)
    \/ pc = "idle" /\ \E a \in PlainArgs : RunStart(a)
    \/ \E k \in 0..MaxProcs, err \in SpawnErrors \cup {"ok"} :
          k <= call.n /\ RunAsync(k, err)
    \/ \E err \in SpawnErrors \cup {"ok"} : ShellCSpawn(err)
    \/ ShellCReturn
    \/ RunValidate({})
    \/ WaitEmpty
    \/ WaitStart
    \/ WaitNextProc
    \/ pc = "wait" /\ WaitValidate({})
    \/ Return

SpecLogged == InitLogged /\ [][NextLogged]_vars

\* Such a runner used for synchronous calls only: every command goes through
\* _shell_c, and a wait() finds nothing pending.
NextLoggedSync ==
    \/ PostInit
    \/ \E p \in Pids : ProcOutput(p)
    \/ TeeDrain
    \/ \E p \in Pids, rc \in ReturnCodes : ProcExit(p, rc)
    \/ pc = "idle" /\ \E a \in PlainArgs \cap SyncArgs : RunStart(a)
    \/ \E err \in SpawnErrors \cup {"ok"} : ShellCSpawn(err)
    \/ ShellCReturn
    \/ RunValidate({})
    \/ WaitEmpty
    \/ Return

SpecLoggedSync == InitLogged /\ [][NextLoggedSync]_vars

\* The steps of the thread inside run() and wait(): the interpreter goes on
\* with the call in progress whenever it can.
RunnerStep ==
    \/ \E k \in 0..MaxProcs, err \in SpawnErrors \cup {"ok"} :
          k <= call.n /\ RunAsync(k, err)
    \/ \E err \in SpawnErrors \cup {"ok"} : ShellCSpawn(err)
    \/ TeeDrain
    \/ ShellCReturn
    \/ RunValidate({})
    \/ WaitNextProc
    \/ pc = "wait" /\ WaitValidate({})

\* The thread goes on, and every spawned command exits in the end.
Fairness ==
    /\ WF_vars(RunnerStep)
    /\ \A p \in Pids : WF_vars(\E rc \in ReturnCodes : ProcExit(p, rc))

SpecLoggedFair == SpecLogged /\ Fairness

----------------------------------------------------------------------------
(* Vocabulary of the properties.                                           *)

\* The step is the first one of a run() call; call' holds its arguments.
RunIsCalled == pc = "idle" /\ call'.op = "run"

\* The step is the one in which the synchronous run() validates and returns.
SyncRunReturns == pc = "validate" /\ pc' = "returned"

\* Every handle of the sequence ps has exited, with return code 0.
AllExited(ps) == \A i \in DOMAIN ps : proc[ps[i]].status = "exited"
AllZero(ps) == \A i \in DOMAIN ps : proc[ps[i]].returncode = 0

\* No path of the set is on the filesystem f.
NoneExists(f, paths) == \A p \in paths : ~Exists(f, p)
AllExist(f, paths) == \A p \in paths : Exists(f, p)

\* The runner's side of a step leaves the processes and the list alone.
NothingSpawned ==
    proc' = proc /\ spawned' = spawned /\ open_proc_list' = open_proc_list

----------------------------------------------------------------------------
\* C1: a run() call with a non-empty input list of which at least one path
\* does not exist raises the input-not-found error in its first step and
\* spawns no process, whatever the call's other arguments and whatever is
\* pending.
C1_MissingInputRaises ==
    [][(RunIsCalled /\ ~AllExist(fs, call'.input_files_or_dirs))
       => /\ pc' = "returned"
          /\ result'.op = "run" /\ result'.kind = "InputNotFound"
          /\ NothingSpawned]_vars

\* A run() has raised input-not-found although one of its declared inputs
\* exists, and a batch is pending.
C1_Witness ==
    /\ pc = "returned" /\ result.op = "run" /\ result.kind = "InputNotFound"
    /\ \E p \in call.input_files_or_dirs : Exists(fs, p)
    /\ open_proc_list # <<>>

\* C2: a run() call whose declared inputs all exist, whose output list is
\* non-empty with every output existing, and with skip_if_exist=True returns
\* without error in its first step: no process is spawned, synchronously or
\* asynchronously.
C2_ExistingOutputsSkip ==
    [][(/\ RunIsCalled
        /\ AllExist(fs, call'.input_files_or_dirs)
        /\ call'.output_files_or_dirs # {}
        /\ AllExist(fs, call'.output_files_or_dirs)
        /\ call'.skip_if_exist)
       => /\ pc' = "returned"
          /\ result'.op = "run" /\ result'.kind = "ok"
          /\ NothingSpawned]_vars

\* A run() that declares inputs and outputs has been skipped.
C2_Witness ==
    /\ pc = "returned" /\ result.op = "run" /\ result.kind = "ok"
    /\ call.skip_if_exist
    /\ call.input_files_or_dirs # {}
    /\ output_found = call.output_files_or_dirs /\ output_found # {}
    /\ spawned = 0

\* C3: when a synchronous run() validates and one of its commands has exited
\* non-zero, outputs are declared and remove_if_failed=True, it raises the
\* aggregate exit-status error and none of the declared outputs exists any
\* more, those that existed before the call included.
C3_FailedCommandRemovesOutputs ==
    [][(/\ SyncRunReturns
        /\ ~AllZero(procs)
        /\ call.output_files_or_dirs # {}
        /\ call.remove_if_failed)
       => /\ result'.op = "run" /\ result'.kind = "SubprocessError"
          /\ NoneExists(fs', call.output_files_or_dirs)]_vars

\* A synchronous run() has raised the exit-status error, and an output that
\* existed when the call was made is gone.
C3_Witness ==
    /\ pc = "returned" /\ result.op = "run" /\ result.kind = "SubprocessError"
    /\ ~call.asynchronous /\ call.remove_if_failed
    /\ output_found # {}
    /\ NoneExists(fs, call.output_files_or_dirs)

\* C4: when a synchronous run() validates, all its commands have exited zero
\* and a declared output does not exist, it raises the output-not-found error
\* naming the missing outputs; and run() raises that error only in a step
\* before which every command of the call was spawned and has exited.
C4_MissingOutputRaises ==
    [][/\ (/\ SyncRunReturns
           /\ AllZero(procs)
           /\ ~AllExist(fs, call.output_files_or_dirs))
          => /\ result'.op = "run" /\ result'.kind = "OutputNotFound"
             /\ result'.paths =
                   {p \in call.output_files_or_dirs : ~Exists(fs, p)}
       /\ (/\ result' # result
           /\ result'.op = "run" /\ result'.kind = "OutputNotFound")
          => /\ pc = "validate"
             /\ Len(procs) = call.n
             /\ AllExited(procs)]_vars

\* A synchronous run() has raised output-not-found.
C4_Witness ==
    /\ pc = "returned" /\ result.op = "run" /\ result.kind = "OutputNotFound"
    /\ ~call.asynchronous
    /\ result.paths # {}

\* C5: when a synchronous run() validates, all its commands have exited zero,
\* outputs are declared and all exist and there is no validator, it returns
\* without error and leaves the filesystem as it is: an output that did not
\* exist when the call was made holds what a command wrote.
C5_OutputsKept ==
    [][(/\ SyncRunReturns
        /\ AllZero(procs)
        /\ call.output_files_or_dirs # {}
        /\ AllExist(fs, call.output_files_or_dirs)
        /\ ~call.output_validator)
       => /\ result'.op = "run" /\ result'.kind = "ok"
          /\ fs' = fs
          /\ \A p \in call.output_files_or_dirs \ output_found :
                fs'[p] = NewFile]_vars

\* A synchronous run() without validator has returned without error, and an
\* output that did not exist when the call was made holds what a command wrote.
C5_Witness ==
    /\ pc = "returned" /\ result.op = "run" /\ result.kind = "ok"
    /\ ~call.asynchronous /\ call.n > 0 /\ ~call.output_validator
    /\ \E p \in call.output_files_or_dirs : p \notin output_found /\ fs[p] = NewFile

----------------------------------------------------------------------------
\* The step is the one in which an asynchronous run() returns without error.
AsyncRunReturns ==
    pc = "spawn" /\ call.asynchronous /\ pc' = "returned" /\ result'.kind = "ok"

\* The handles Popen gives to the next n commands, in the order of the commands.
NextHandles(n) == [i \in 1..n |-> spawned + i]

\* The step is the one in which wait() returns, without error or raising.
WaitReturns == pc # "returned" /\ pc' = "returned" /\ result'.op = "wait"

\* Every process of every batch of the list q has exited.
AllBatchesExited(q) == \A i \in DOMAIN q : AllExited(q[i].procs)

\* C6: an asynchronous run() that is neither rejected nor skipped and returns
\* has spawned one process per command, in the order of the commands, has
\* appended one batch record at the end of the pending list (the handles in
\* that order, the declared outputs, the validator and remove_if_failed) and
\* has neither waited for a process nor checked or changed an output.
C6_AsyncRunQueuesOneBatch ==
    [][AsyncRunReturns
       => /\ spawned' = spawned + call.n
          /\ \A i \in 1..call.n :
                /\ proc[NextHandles(call.n)[i]].status = "none"
                /\ proc'[NextHandles(call.n)[i]].status = "running"
          /\ \A p \in Pids \ Range(NextHandles(call.n)) : proc'[p] = proc[p]
          /\ open_proc_list' =
                Append(open_proc_list,
                       [output_files_or_dirs |-> call.output_files_or_dirs,
                        output_validator |-> call.output_validator,
                        remove_if_failed |-> call.remove_if_failed,
                        procs |-> NextHandles(call.n)])
          /\ fs' = fs
          /\ result'.op = "run" /\ result'.vcalls = {}]_vars

\* An asynchronous run() of two commands with remove_if_failed=True has
\* returned, its batch is the last of the list and both processes still run.
C6_Witness ==
    /\ pc = "returned" /\ result.op = "run" /\ result.kind = "ok"
    /\ call.asynchronous /\ call.n = 2 /\ call.remove_if_failed
    /\ open_proc_list # <<>>
    /\ open_proc_list[Len(open_proc_list)].procs = <<1, 2>>
    /\ proc[1].status = "running" /\ proc[2].status = "running"

\* C7: when wait() returns without error, every process of every batch that
\* was pending has exited (with return code 0), every batch was validated
\* without error and the pending list is empty.
C7_WaitReturnsClean ==
    [][(WaitReturns /\ result'.kind = "ok")
       => /\ AllBatchesExited(open_proc_list)
          /\ \A i \in DOMAIN open_proc_list :
                /\ AllZero(open_proc_list[i].procs)
                /\ i \in validated'
          /\ open_proc_list' = <<>>]_vars

\* wait() has returned without error after validating two batches.
C7_Witness ==
    /\ pc = "returned" /\ result.op = "wait" /\ result.kind = "ok"
    /\ validated = {1, 2}
    /\ open_proc_list = <<>>

\* C8: wait() does not return, normally or raising, before every process of
\* every queued batch has exited: once it has returned, no process of a batch
\* still in the list is running.
C8_WaitReturnsAfterAllExited ==
    (pc = "returned" /\ result.op = "wait") => AllBatchesExited(open_proc_list)

Rejects(ps, outs, func, v) ==
    /\ AllZero(ps)
    /\ outs # {} /\ AllExist(fs, outs)
    /\ func /\ v \subseteq outs /\ outs \ v # {}

\* run() or wait() raises the validator error naming the paths of outs that
\* are not in v, and with remove_if_failed every path of outs is removed.
RaisesNotValidated(outs, remove_if_failed, v) ==
    /\ pc' = "returned"
    /\ result'.kind = "OutputNotValidated"
    /\ result'.paths = outs \ v
    /\ remove_if_failed => NoneExists(fs', outs)
    /\ ~remove_if_failed => fs' = fs

\* C10: when the commands of a batch have all exited zero, its declared
\* outputs all exist and the validator rejects at least one of them, run()
\* (synchronous) and wait() raise the validator error naming exactly the
\* rejected paths, and with remove_if_failed=True every declared output is
\* removed, the accepted ones included.
C10_RejectedOutputs ==
    [][\A v \in SUBSET Paths :
        /\ (/\ RunValidate(v)
            /\ Rejects(procs, call.output_files_or_dirs,
                       call.output_validator, v))
           => RaisesNotValidated(call.output_files_or_dirs,
                                 call.remove_if_failed, v)
        /\ (/\ pc = "wait" /\ WaitValidate(v)
            /\ Rejects(open_proc_list[bi].procs,
                       open_proc_list[bi].output_files_or_dirs,
                       open_proc_list[bi].output_validator, v))
           => RaisesNotValidated(open_proc_list[bi].output_files_or_dirs,
                                 open_proc_list[bi].remove_if_failed, v)]_vars

\* The validator error names one path while the validator accepted another,
\* and with remove_if_failed=True neither exists any more.
C10_Witness ==
    /\ pc = "returned" /\ result.kind = "OutputNotValidated"
    /\ result.paths # {} /\ result.accepted # {}
    /\ NoneExists(fs, result.paths \cup result.accepted)

----------------------------------------------------------------------------
\* The step is one in which run() or wait() raises.
CallRaises == pc # "returned" /\ pc' = "returned" /\ result'.kind # "ok"

\* remove_if_failed of the call or of the batch that the step is about.
RemoveIfFailedOfStep ==
    IF pc = "wait" THEN open_proc_list[bi].remove_if_failed
    ELSE IF pc = "idle" THEN call'.remove_if_failed
    ELSE call.remove_if_failed

\* C11: with remove_if_failed=False a step in which run() or wait() raises
\* (spawn error, non-zero exit, missing output, validator rejection) removes
\* nothing: every path that existed before the step exists after it, with
\* the content it had.
C11_NoRemovalWithoutFlag ==
    [][(CallRaises /\ ~RemoveIfFailedOfStep) => fs' = fs]_vars

\* A synchronous run() with remove_if_failed=False has raised on a spawn
\* error, and a declared output exists.
C11_Witness ==
    /\ pc = "returned" /\ result.op = "run" /\ result.kind = "SubprocessError"
    /\ result.failed = {}
    /\ ~call.asynchronous /\ ~call.remove_if_failed
    /\ \E p \in call.output_files_or_dirs : Exists(fs, p)

----------------------------------------------------------------------------
\* The step is the one in which wait() validates the batch it has waited on.
WaitValidates ==
    /\ pc = "wait"
    /\ pi = Len(open_proc_list[bi].procs)
    /\ pc' = "returned" \/ bi' # bi

\* The handles of the sequence ps whose return code is not 0.
NonZero(ps) == {ps[i] : i \in {j \in DOMAIN ps : proc[ps[j]].returncode # 0}}

\* C12: when run() (synchronous) or wait() validates a call or a batch of
\* which a process has a non-zero return code, it raises the aggregate
\* exit-status error, and the error lists exactly the processes of that call
\* or batch whose return code is not 0.
C12_ErrorListsFailedProcesses ==
    [][/\ (SyncRunReturns /\ NonZero(procs) # {})
          => /\ result'.kind = "SubprocessError"
             /\ result'.failed = NonZero(procs)
       /\ (WaitValidates /\ NonZero(open_proc_list[bi].procs) # {})
          => /\ result'.kind = "SubprocessError"
             /\ result'.failed = NonZero(open_proc_list[bi].procs)]_vars

\* wait() has raised the exit-status error for a batch of two processes,
\* listing the one that exited non-zero and not the one that exited zero.
C12_Witness ==
    /\ pc = "returned" /\ result.op = "wait" /\ result.kind = "SubprocessError"
    /\ \E i \in DOMAIN open_proc_list :
          /\ Len(open_proc_list[i].procs) = 2
          /\ AllExited(open_proc_list[i].procs)
          /\ result.failed = NonZero(open_proc_list[i].procs)
          /\ Cardinality(result.failed) = 1

----------------------------------------------------------------------------
----------------------------------------------------------------------------
\* A synchronous run() is being executed.
SyncRunExecutes ==
    pc \in {"spawn", "shell_c", "validate"} /\ ~call.asynchronous

\* The handles of the synchronous call are those of its first commands, in
\* the order of the commands, each once; all but the last have exited, and
\* the last one has too unless the thread is blocked on it.
SyncRunInOrder ==
    SyncRunExecutes
    => /\ Len(procs) <= call.n
       /\ \A i \in DOMAIN procs : procs[i] = procs[1] + i - 1
       /\ \A i \in 1..(Len(procs) - 1) : proc[procs[i]].status = "exited"
       /\ pc = "shell_c" => procs # <<>>
       /\ pc # "shell_c" => AllExited(procs)
       /\ pc = "validate" => Len(procs) = call.n

\* C14: an executed synchronous run() spawns its commands one at a time, in
\* list order and each once, the next one only when the process of the one
\* before has exited, so that two processes of the call never run at the
\* same time; and it returns or raises only when the last process it
\* spawned has exited.
C14_SyncRunIsSequential ==
    [][/\ SyncRunInOrder'
       /\ (SyncRunExecutes /\ procs' # procs /\ procs' # <<>>)
          => /\ pc = "spawn" /\ AllExited(procs)
             /\ procs' = Append(procs, spawned + 1)
             /\ proc[spawned + 1].status = "none"
             /\ proc'[spawned + 1].status = "running"
       /\ (SyncRunExecutes /\ pc' = "returned")
          => pc # "shell_c" /\ AllExited(procs)]_vars

\* The second command of a synchronous run() is running, the first has exited.
C14_Witness ==
    /\ pc = "shell_c" /\ ~call.asynchronous
    /\ Len(procs) = 2
    /\ proc[procs[1]].status = "exited"
    /\ proc[procs[2]].status = "running"

----------------------------------------------------------------------------
\* The step is the first one of the call run(a), which passes the input
\* check: the call is skipped or goes on to spawn.
RunPassesInputCheck(a) ==
    /\ pc = "idle"
    /\ ~InputMissing(fs, a)
    /\ RunSkip(ReadForSkip(a)) \/ RunStart(a)

\* The calls with remove_previous=True that the first step of a run() may be
\* the step of: the call whose arguments are call', and, for a step that
\* returns before it reads remove_previous, the call that differs from call'
\* in the arguments not read.
CallsRemovingPrevious ==
    {a \in {call', [call' EXCEPT !.remove_previous = TRUE, !.n = 1]} :
        a \in Args /\ a.remove_previous}

\* C15 as stated: with remove_previous=True every run() call that passes the
\* input check removes every declared output, whatever skip_if_exist is and
\* whether or not all the outputs exist.
C15_RemovePreviousUnconditional ==
    [][RunIsCalled
       => \A a \in CallsRemovingPrevious :
             RunPassesInputCheck(a)
             => NoneExists(fs', a.output_files_or_dirs)]_vars

\* C15, amended: with remove_previous=True a run() call that passes the input
\* check and is not skipped removes every declared output, file or directory,
\* in its first step, before it spawns anything, and touches no other path;
\* a call that is skipped (outputs declared, all existing, skip_if_exist=True)
\* removes nothing, whatever remove_previous is.
C15_RemovePreviousUnlessSkipped ==
    [][RunIsCalled
       => \A a \in CallsRemovingPrevious :
             RunPassesInputCheck(a)
             => IF Skipped(fs, a)
                THEN fs' = fs /\ pc' = "returned"
                ELSE /\ NoneExists(fs', a.output_files_or_dirs)
                     /\ \A p \in Paths \ a.output_files_or_dirs : fs'[p] = fs[p]
                     /\ pc' = "spawn" /\ NothingSpawned]_vars

\* A run() with remove_previous=True and skip_if_exist=True goes on to spawn:
\* of its two declared outputs one existed, and none exists any more.
C15_Witness ==
    /\ pc = "spawn" /\ call.remove_previous /\ call.skip_if_exist
    /\ Cardinality(call.output_files_or_dirs) = 2
    /\ Cardinality(output_found) = 1
    /\ NoneExists(fs, call.output_files_or_dirs)

----------------------------------------------------------------------------
\* run() or wait() raises output-not-found naming the paths of outs that do
\* not exist, without invoking the validator; with remove_if_failed the paths
\* of outs that exist are removed, and no other path is touched.
RaisesNotFound(outs, remove_if_failed) ==
    /\ pc' = "returned"
    /\ result'.kind = "OutputNotFound"
    /\ result'.paths = {p \in outs : ~Exists(fs, p)}
    /\ result'.vcalls = {}
    /\ \A p \in Paths :
          fs'[p] = IF remove_if_failed /\ p \in outs THEN Absent ELSE fs[p]

\* C16: when the processes of a call or batch have all exited zero and a
\* declared output does not exist, validation (in a synchronous run() and in
\* wait()) raises output-not-found naming exactly the missing paths, the
\* validator is not invoked, and with remove_if_failed=True exactly the
\* declared outputs that exist are removed.
C16_MissingOutputs ==
    [][/\ (/\ SyncRunReturns
           /\ AllZero(procs)
           /\ ~AllExist(fs, call.output_files_or_dirs))
          => RaisesNotFound(call.output_files_or_dirs, call.remove_if_failed)
       /\ (/\ WaitValidates
           /\ AllZero(open_proc_list[bi].procs)
           /\ ~AllExist(fs, open_proc_list[bi].output_files_or_dirs))
          => RaisesNotFound(open_proc_list[bi].output_files_or_dirs,
                            open_proc_list[bi].remove_if_failed)]_vars

\* A synchronous run() with a validator and remove_if_failed=True has raised
\* output-not-found for one of its two declared outputs, and the other one,
\* which existed, is gone.
C16_Witness ==
    /\ pc = "returned" /\ result.op = "run" /\ result.kind = "OutputNotFound"
    /\ call.output_validator /\ call.remove_if_failed
    /\ Cardinality(call.output_files_or_dirs) = 2
    /\ Cardinality(result.paths) = 1
    /\ NoneExists(fs, call.output_files_or_dirs)

----------------------------------------------------------------------------
\* The step raises the aggregate exit-status error and nothing of output
\* validation has happened: no path is reported, the validator is not invoked.
RaisesExitStatusOnly ==
    /\ pc' = "returned"
    /\ result'.kind = "SubprocessError"
    /\ result'.paths = {} /\ result'.vcalls = {} /\ result'.accepted = {}

\* The outcome of the step comes from output validation.
OutputsValidated ==
    \/ result'.kind \in {"OutputNotFound", "OutputNotValidated"}
    \/ result'.vcalls # {}

\* C17: validation looks at the return codes before the outputs. When a
\* process of the call or batch has a non-zero return code, the aggregate
\* exit-status error is raised, whether or not the outputs exist, and the
\* validator is not invoked; an outcome of output validation is reached only
\* when every process has exited zero and outputs are declared.
C17_ExitCodesBeforeOutputs ==
    [][/\ (SyncRunReturns /\ ~AllZero(procs)) => RaisesExitStatusOnly
       /\ (WaitValidates /\ ~AllZero(open_proc_list[bi].procs))
          => RaisesExitStatusOnly
       /\ (SyncRunReturns /\ OutputsValidated)
          => AllZero(procs) /\ call.output_files_or_dirs # {}
       /\ (WaitValidates /\ OutputsValidated)
          => /\ AllZero(open_proc_list[bi].procs)
             /\ open_proc_list[bi].output_files_or_dirs # {}]_vars

\* A synchronous run() with a validator has raised the exit-status error
\* although a declared output is missing.
C17_Witness ==
    /\ pc = "returned" /\ result.op = "run" /\ result.kind = "SubprocessError"
    /\ result.failed # {}
    /\ call.output_validator /\ ~call.remove_if_failed
    /\ ~AllExist(fs, call.output_files_or_dirs)

----------------------------------------------------------------------------
\* C18: every handle a synchronous spawn opens (fw: the log file or the null
\* device; fr: the log file read for the echo) is closed when the spawn
\* exits, by return or by an error of Popen: unless the thread is inside a
\* synchronous spawn, no such handle is open.
C18_SyncHandlesClosed ==
    pc # "shell_c" => open_files.fw = 0 /\ open_files.fr = 0

\* C19: every sink an asynchronous spawn opens (fo: the log file or the null
\* device) is closed by wait() when it processes the batch of the spawn: when
\* wait() has returned without error, no such handle is open.
C19_AsyncHandlesClosed ==
    (pc = "returned" /\ result.op = "wait" /\ result.kind = "ok")
    => open_files.fo = 0

----------------------------------------------------------------------------
\* The step appends exactly one batch at the end of the pending list.
OneBatchAppended ==
    /\ Len(open_proc_list') = Len(open_proc_list) + 1
    /\ SubSeq(open_proc_list', 1, Len(open_proc_list)) = open_proc_list

\* C20: the pending list is empty after construction, and a step changes it
\* only if it is the step in which an asynchronous run() returns, which
\* appends exactly one batch, or the step in which wait() returns without
\* error, which empties it. Every other step (of a synchronous run(), of a
\* skipped run(), of a run() failing its input check, of a validation that
\* raises, with the removals they make) leaves it as it is.
C20_PendingListFrame ==
    /\ open_proc_list = <<>>
    /\ [][open_proc_list' # open_proc_list
          => \/ AsyncRunReturns /\ OneBatchAppended
             \/ /\ WaitReturns /\ result'.kind = "ok"
                /\ open_proc_list' = <<>>]_vars

\* A synchronous run() has raised the exit-status error and removed an output
\* while a batch is pending.
C20_Witness ==
    /\ pc = "returned" /\ result.op = "run" /\ result.kind = "SubprocessError"
    /\ result.failed # {}
    /\ call.remove_if_failed /\ output_found # {}
    /\ Len(open_proc_list) = 1

----------------------------------------------------------------------------
\* The outcome of a validation that looks at return codes only: the
\* exit-status error, or no error (wait() then goes on or returns).
ExitCodesOnly(ps) ==
    /\ IF AllZero(ps)
       THEN result'.kind = IF pc' = "returned" THEN "ok" ELSE "none"
       ELSE pc' = "returned" /\ result'.kind = "SubprocessError"
    /\ result'.paths = {} /\ result'.vcalls = {}
    /\ fs' = fs

\* C21: a run() that declares no output and whose declared inputs all exist
\* is never skipped: its first step goes on to spawn, whatever skip_if_exist
\* is, and removes nothing, whatever remove_previous is. Its validation, in
\* run() or in wait(), looks at the return codes only: it reports no path,
\* does not invoke the validator and removes nothing, whatever
\* remove_if_failed is; nor does a spawn error remove anything.
C21_NoOutputsDeclared ==
    [][/\ (/\ RunIsCalled
           /\ call'.output_files_or_dirs = {}
           /\ AllExist(fs, call'.input_files_or_dirs))
          => pc' = "spawn" /\ fs' = fs
       /\ (/\ pc = "spawn" /\ pc' # "spawn"
           /\ call.output_files_or_dirs = {})
          => fs' = fs
       /\ (SyncRunReturns /\ call.output_files_or_dirs = {})
          => ExitCodesOnly(procs)
       /\ (WaitValidates /\ open_proc_list[bi].output_files_or_dirs = {})
          => ExitCodesOnly(open_proc_list[bi].procs)]_vars

\* A run() without outputs, with skip_if_exist=True and remove_previous=True,
\* goes on to spawn, and every path is still there.
C21_Witness ==
    /\ pc = "spawn"
    /\ call.output_files_or_dirs = {}
    /\ call.skip_if_exist /\ call.remove_previous /\ call.remove_if_failed
    /\ AllExist(fs, Paths)

----------------------------------------------------------------------------
\* C22: wait() called while the pending list is empty returns without error
\* in its first step: it waits on no process, validates nothing, and leaves
\* the pending list, the filesystem, the processes and the handles as they
\* are.
C22_WaitOnEmptyList ==
    [][(pc = "idle" /\ call'.op = "wait" /\ open_proc_list = <<>>)
       => /\ pc' = "returned"
          /\ result' = Outcome("wait", "ok", {}, {}, {}, {})
          /\ waited' = {} /\ validated' = {}
          /\ UNCHANGED <<fs, open_proc_list, proc, open_files>>]_vars

\* wait() has returned on an empty list, after a run() and with a path on
\* the filesystem.
C22_Witness ==
    /\ pc = "returned" /\ result.op = "wait" /\ result.kind = "ok"
    /\ waited = {} /\ validated = {}
    /\ open_proc_list = <<>>
    /\ runs > 0
    /\ \E p \in Paths : Exists(fs, p)

----------------------------------------------------------------------------
\* Validation of the processes ps with the declared outputs outs reaches the
\* validator: every process has exited zero, outputs are declared and all
\* exist, and there is a validator.
ReachesValidator(ps, outs, func) ==
    AllZero(ps) /\ outs # {} /\ AllExist(fs, outs) /\ func

\* The paths the validator is invoked on when the batch d is validated.
AskedOf(d) ==
    ValidateResults(fs, d.procs, d.output_files_or_dirs, d.output_validator,
                    d.remove_if_failed, {}, "wait").out.vcalls

\* C24: when validation reaches the validator, the validator is invoked on
\* each declared output, all of which exist, and on no other path; on every
\* other way through run() and wait() (skipped run, input-not-found, spawn
\* error, process failure, missing output, no validator, asynchronous run()
\* before wait()) it is not invoked. The model records the set of paths the
\* validator is invoked on: _validate_outputs iterates over sets (lines 613
\* and 622), so each distinct path is asked once.
C24_ValidatorInvocations ==
    [][/\ SyncRunReturns
          => result'.vcalls =
                IF ReachesValidator(procs, call.output_files_or_dirs,
                                    call.output_validator)
                THEN call.output_files_or_dirs ELSE {}
       /\ WaitValidates
          => /\ AskedOf(open_proc_list[bi]) =
                   IF ReachesValidator(open_proc_list[bi].procs,
                                       open_proc_list[bi].output_files_or_dirs,
                                       open_proc_list[bi].output_validator)
                   THEN open_proc_list[bi].output_files_or_dirs ELSE {}
             /\ pc' = "returned" => result'.vcalls = AskedOf(open_proc_list[bi])
       /\ (result' # result /\ ~SyncRunReturns /\ ~WaitValidates)
          => result'.vcalls = {}]_vars

\* A synchronous run() has raised the validator error: the validator was
\* invoked on both declared outputs and rejected both.
C24_Witness ==
    /\ pc = "returned" /\ result.op = "run" /\ result.kind = "OutputNotValidated"
    /\ result.vcalls = call.output_files_or_dirs
    /\ Cardinality(result.vcalls) = 2
    /\ result.accepted = {}

----------------------------------------------------------------------------
\* C30: while wait() is in progress the pending list changes only on the
\* step that returns normally; a wait() that raises therefore leaves the
\* list exactly as it was when it was called, the batches it has already
\* validated included, and the next wait() starts again from the first
\* queued batch.
C30_WaitRaisingKeepsList ==
    [][/\ (call'.op = "wait" /\ ~(pc' = "returned" /\ result'.kind = "ok"))
          => open_proc_list' = open_proc_list
       /\ (pc = "idle" /\ call'.op = "wait" /\ open_proc_list # <<>>)
          => bi' = 1 /\ pi' = 1]_vars

\* wait() has raised for the second batch after validating the first, and
\* both batches are still pending.
C30_Witness ==
    /\ pc = "returned" /\ result.op = "wait" /\ result.kind # "ok"
    /\ validated = {1} /\ waited = {1, 2}
    /\ Len(open_proc_list) = 2

----------------------------------------------------------------------------
IsPrefix(s, t) == Len(s) <= Len(t) /\ SubSeq(t, 1, Len(s)) = s

\* The place of the last e in s, 0 when there is none.
LastIndex(s, e) ==
    IF \E i \in DOMAIN s : s[i] = e
    THEN CHOOSE i \in DOMAIN s : s[i] = e /\ \A j \in DOMAIN s : s[j] = e => j <= i
    ELSE 0

\* The command lines among the entries of s, in order.
RECURSIVE CommandLines(_)
CommandLines(s) ==
    IF s = <<>> THEN <<>>
    ELSE IF s[1][1] = "command_line"
    THEN <<s[1]>> \o CommandLines(Tail(s))
    ELSE CommandLines(Tail(s))

\* The log holds the command line of every process spawned so far, those of
\* processes spawned earlier first, and every chunk a process has written
\* comes after the command line of that process.
LogInSpawnOrder ==
    /\ \A q \in 1..spawned : LastIndex(log, CommandLine(q)) > 0
    /\ \A q \in 1..spawned, r \in 1..spawned :
          q < r => LastIndex(log, CommandLine(q)) < LastIndex(log, CommandLine(r))
    /\ \A q \in 1..spawned, i \in DOMAIN log :
          log[i] = Chunk(q) => i > LastIndex(log, CommandLine(q))

\* C25: with a log path, after construction: no step removes or changes
\* what the log file holds, it only appends; a step that spawns processes
\* leaves a file at the log path and appends their command lines in spawn
\* order, as the whole content of a file just created or after a line
\* separator each in a file that was there; so the log always holds the
\* command lines of all spawned commands in spawn order, each before
\* anything its process writes.
C25_LogIsAppendOnly ==
    [][(log_txt /\ pc # "new")
       => /\ IsPrefix(log, log')
          /\ Exists(logfs, LogPath) => logfs' = logfs
          /\ spawned' > spawned
             => /\ Exists(logfs', LogPath) /\ ~IsDir(logfs', LogPath)
                /\ IsPrefix([i \in 1..(spawned' - spawned) |-> CommandLine(spawned + i)],
                            CommandLines(Unread(log', Len(log))))
                /\ IF Exists(logfs, LogPath)
                   THEN Unread(log', Len(log))[1] = LineSep
                   ELSE log'[1] = CommandLine(spawned + 1)
          /\ LogInSpawnOrder']_vars

\* The log file was there before construction; two commands have been
\* spawned, one of them has written a chunk, and the old text is still the
\* beginning of the log.
C25_Witness ==
    /\ log_txt /\ spawned = 2
    /\ IsPrefix(OldText, log)
    /\ \E q \in Pids : Occurrences(log, Chunk(q)) = 1
    /\ pc = "returned" /\ result.kind = "ok"

----------------------------------------------------------------------------
\* _shell_c returns the process it has waited for.
ShellCReturns == pc = "shell_c" /\ pc' \in {"spawn", "validate"}

----------------------------------------------------------------------------
\* The processes this step spawns.
Spawns == (spawned + 1)..spawned'

\* C27: a spawned process gets its stdout and stderr from the mode, whether
\* a log path is set, and quiet, and from nothing else: synchronous with a
\* log: the log file, with fr opened to echo it iff not quiet;
\* synchronous without a log: the null device when quiet, the inherited
\* streams when not; asynchronous: the log file with a log, the null device
\* without, whatever quiet is; stderr always goes where stdout goes; and no
\* later step changes where a process writes.
C27_SinkByModeLogQuiet ==
    [][/\ \A p \in Spawns :
             /\ sink'[p].stdout =
                   IF call.asynchronous
                   THEN IF log_txt THEN "log" ELSE "null"
                   ELSE IF log_txt THEN "log"
                        ELSE IF quiet THEN "null" ELSE "inherit"
             /\ sink'[p].stderr = sink'[p].stdout
             /\ ~call.asynchronous => ((fr' > 0) <=> (log_txt /\ ~quiet))
       /\ \A p \in Pids \ Spawns : sink'[p] = sink[p]]_vars

\* Without a log and not quiet, one process spawned asynchronously writes to
\* the null device and one spawned synchronously to the inherited streams.
C27_Witness ==
    /\ ~log_txt /\ ~quiet
    /\ \E p \in Pids, q \in Pids :
          /\ proc[p].status = "running" /\ sink[p].stdout = "null"
          /\ proc[q].status = "running" /\ sink[q].stdout = "inherit"

----------------------------------------------------------------------------
\* C28: construction with clear_log_txt and a log path leaves nothing at the
\* log path, whether a file, a directory or nothing was there, and raises
\* no error; construction with clear_log_txt False or without a log path
\* leaves the log path and its content as they were; in both cases the rest
\* of the filesystem is unchanged.
C28_ClearLogOnConstruction ==
    [][pc = "new"
       => /\ pc' = "idle"
          /\ IF clear_log_txt /\ log_txt
             THEN ~Exists(logfs', LogPath) /\ log' = <<>>
             ELSE logfs' = logfs /\ log' = log
          /\ fs' = fs]_vars

\* The runner has been constructed with clear_log_txt and a log path, and
\* nothing is at the log path.
C28_Witness ==
    /\ pc = "idle" /\ runs = 0 /\ spawned = 0
    /\ clear_log_txt /\ log_txt
    /\ ~Exists(logfs, LogPath) /\ log = <<>>

----------------------------------------------------------------------------
\* C29: a run() returns in its first step exactly when a declared input is
\* missing (it raises input-not-found) or it is skipped (it returns
\* normally), and that step changes nothing: no path of the filesystem, not
\* the log file, not standard output, no file handle, no process and not
\* the pending list; this holds for the call with remove_previous=True too,
\* which the step does not tell from the call it is the step of.
C29_RejectedOrSkippedRunChangesNothing ==
    [][RunIsCalled
       => /\ (pc' = "returned") <=> (InputMissing(fs, call') \/ Skipped(fs, call'))
          /\ pc' = "returned"
             => /\ result'.kind = IF InputMissing(fs, call')
                                  THEN "InputNotFound" ELSE "ok"
                /\ UNCHANGED <<fs, logfs, log, stdout, fr, sink, open_files,
                               open_proc_list, proc, spawned>>
          /\ \A a \in CallsRemovingPrevious :
                (RunInputNotFound(ReadInputs(a)) \/ RunSkip(ReadForSkip(a)))
                => fs' = fs]_vars

\* A run() has been skipped by a runner that has a log file with text in it
\* and a pending batch.
C29_Witness ==
    /\ pc = "returned" /\ result.op = "run" /\ result.kind = "ok"
    /\ call.skip_if_exist /\ call.output_files_or_dirs # {}
    /\ log_txt /\ Len(log) > 0
    /\ Len(open_proc_list) = 1

----------------------------------------------------------------------------
\* C31: when wait() validates batch d, the filesystem changes only by the
\* removal of outputs that d declares, only when d's own remove_if_failed is
\* set and the validation fails; the validator is asked only when d has one,
\* and only about outputs of d; a path that only another batch declares is
\* left as it is. (That d holds what the run() that queued it was given is
\* C6.)
C31_BatchValidatedWithItsOwnArguments ==
    [][WaitValidates
       => LET d == open_proc_list[bi]
          IN  /\ \A p \in Paths :
                    fs'[p] # fs[p]
                    => /\ p \in d.output_files_or_dirs
                       /\ d.remove_if_failed
                       /\ fs'[p] = Absent
                       /\ pc' = "returned" /\ result'.kind # "ok"
              /\ AskedOf(d) # {}
                 => d.output_validator /\ AskedOf(d) \subseteq d.output_files_or_dirs
              /\ (pc' = "returned" /\ result'.kind # "ok" /\ d.remove_if_failed)
                 => NoneExists(fs', d.output_files_or_dirs)]_vars

\* wait() has raised for the first of two batches because its validator
\* rejected its output: that output is gone, and the output of the second
\* batch, which does not ask for removal, is still there.
C31_Witness ==
    /\ pc = "returned" /\ result.op = "wait" /\ result.kind = "OutputNotValidated"
    /\ Len(open_proc_list) = 2 /\ waited = {1}
    /\ open_proc_list[1].output_files_or_dirs = {"a"}
    /\ open_proc_list[1].remove_if_failed
    /\ open_proc_list[2].output_files_or_dirs = {"b"}
    /\ ~open_proc_list[2].remove_if_failed
    /\ ~Exists(fs, "a") /\ Exists(fs, "b")

----------------------------------------------------------------------------
\* The step is the one in which an asynchronous run() returns or raises.
AsyncRunEnds == pc = "spawn" /\ call.asynchronous /\ pc' = "returned"

\* The batches of the list l that refer to process p.
BatchesOf(l, p) == {i \in DOMAIN l : p \in Range(l[i].procs)}

\* C32: when an asynchronous run() returns or raises, every process it has
\* spawned is referenced by exactly one batch of the pending list, also when
\* the call raises after it has spawned some of its commands; and a process
\* leaves the batches only when wait() returns normally and empties the
\* list.
C32_AsyncProcessesAreTracked ==
    [][/\ AsyncRunEnds
          => \A p \in Spawns : Cardinality(BatchesOf(open_proc_list', p)) = 1
       /\ \A p \in Pids :
             (BatchesOf(open_proc_list, p) # {} /\ BatchesOf(open_proc_list', p) = {})
             => WaitReturns /\ result'.kind = "ok"]_vars

----------------------------------------------------------------------------
\* C33: when a run() that is skipped or executed synchronously has returned
\* without error and declares outputs, every declared output exists.
C33_OutputsExistAfterSuccess ==
    (/\ pc = "returned" /\ result.op = "run" /\ result.kind = "ok"
     /\ ~call.asynchronous /\ call.output_files_or_dirs # {})
    => AllExist(fs, call.output_files_or_dirs)

\* A synchronous run() that declares both paths has executed its command and
\* returned without error: no output was there when it was called.
C33_Witness ==
    /\ pc = "returned" /\ result.op = "run" /\ result.kind = "ok"
    /\ ~call.asynchronous /\ call.output_files_or_dirs = Paths
    /\ output_found = {} /\ ~call.skip_if_exist
    /\ AllExist(fs, Paths)

----------------------------------------------------------------------------
\* The errors a validation raises.
ValidationErrors == {"SubprocessError", "OutputNotFound", "OutputNotValidated"}

\* C34: when the validation of a synchronous run() or of a batch in wait()
\* raises the exit-status, the output-not-found or the validator error, and
\* the call or batch declares outputs with remove_if_failed set, none of its
\* declared outputs exists right after the step that raises.
C34_FailureLeavesNoOutput ==
    [][/\ (/\ SyncRunReturns /\ result'.kind \in ValidationErrors
           /\ call.output_files_or_dirs # {} /\ call.remove_if_failed)
          => NoneExists(fs', call.output_files_or_dirs)
       /\ (/\ WaitValidates /\ pc' = "returned" /\ result'.kind \in ValidationErrors)
          => LET d == open_proc_list[bi]
             IN  (d.output_files_or_dirs # {} /\ d.remove_if_failed)
                 => NoneExists(fs', d.output_files_or_dirs)]_vars

\* wait() has raised output-not-found for a batch that declares both paths
\* and asks for removal: one of them was there, and none is there now.
C34_Witness ==
    /\ pc = "returned" /\ result.op = "wait" /\ result.kind = "OutputNotFound"
    /\ Len(open_proc_list) = 1
    /\ open_proc_list[1].output_files_or_dirs = Paths
    /\ open_proc_list[1].remove_if_failed
    /\ Cardinality(result.paths) = 1
    /\ NoneExists(fs, Paths)

----------------------------------------------------------------------------
\* C35: in a synchronous run() the step after a command has exited goes on
\* to spawn the next command whenever there is one, whatever the exit code,
\* and changes neither the filesystem nor the result; the step after that
\* spawns it (or Popen raises); and the exit-status error, with its cleanup,
\* is raised only by the validation, when all the commands of the call have
\* been spawned and have exited.
C35_FailureDoesNotStopSequence ==
    [][/\ ShellCReturns
          => /\ pc' = IF Len(procs) < call.n THEN "spawn" ELSE "validate"
             /\ fs' = fs /\ result' = result /\ procs' = procs
       /\ (pc = "spawn" /\ ~call.asynchronous /\ pc' # pc)
          => \/ pc' = "shell_c" /\ spawned' = spawned + 1
                /\ procs' = Append(procs, spawned')
             \/ pc' = "returned" /\ result'.kind \in SpawnErrors
       /\ (SyncRunReturns /\ result'.kind = "SubprocessError")
          => Len(procs) = call.n /\ AllExited(procs)]_vars

\* A synchronous run() of two commands has raised the exit-status error for
\* the first command alone: the second was spawned and exited with 0.
C35_Witness ==
    /\ pc = "returned" /\ result.op = "run" /\ result.kind = "SubprocessError"
    /\ ~call.asynchronous /\ call.n = 2 /\ spawned = 2
    /\ result.failed = {1}

----------------------------------------------------------------------------
\* The batches of the pending list with a process that has exited non-zero.
FailedBatches ==
    {i \in DOMAIN open_proc_list :
        \E j \in DOMAIN open_proc_list[i].procs :
            /\ proc[open_proc_list[i].procs[j]].status = "exited"
            /\ proc[open_proc_list[i].procs[j]].returncode # 0}

\* Nothing after the first failed batch is being or has been waited on or
\* validated by the wait() in progress.
StuckAtFailedBatch ==
    \A i \in FailedBatches :
        /\ pc = "wait" => bi <= i
        /\ \A k \in waited : k <= i
        /\ \A k \in validated : k < i

----------------------------------------------------------------------------
\* The calls with a validator that the first step of a run() may be the step
\* of: a step that returns before it reads output_validator is the same for
\* the call with a validator and the call without.
CallsWithValidator ==
    {a \in {call', [call' EXCEPT !.output_validator = TRUE,
                                 !.remove_if_failed = TRUE, !.n = 1]} :
        a \in Args /\ a.output_validator}

\* C37: a run() with a validator whose declared outputs all exist, with
\* skip_if_exist, returns success in its first step; that step asks the
\* validator about no path, so that it is the same step whatever the
\* validator would answer, and it removes nothing, whatever
\* remove_if_failed is.
C37_SkipDoesNotValidate ==
    [][RunIsCalled
       => \A a \in CallsWithValidator :
             (~InputMissing(fs, a) /\ Skipped(fs, a)
              /\ (RunSkip(ReadForSkip(a)) \/ RunStart(a)))
             => /\ pc' = "returned"
                /\ result' = Outcome("run", "ok", {}, {}, {}, {})
                /\ fs' = fs
                /\ \A v \in SUBSET a.output_files_or_dirs :
                      /\ result'.vcalls # ValidateOutputs(fs, a.output_files_or_dirs,
                                                         TRUE, TRUE, v, "run").out.vcalls
                      /\ v # a.output_files_or_dirs
                         => fs' # ValidateOutputs(fs, a.output_files_or_dirs,
                                                  TRUE, TRUE, v, "run").fs]_vars

\* The first run() of a runner has been skipped: both declared outputs were
\* there, one of them a directory, and they still are.
C37_Witness ==
    /\ pc = "returned" /\ result.op = "run" /\ result.kind = "ok"
    /\ call.skip_if_exist /\ call.output_files_or_dirs = Paths
    /\ runs = 1 /\ result.vcalls = {}
    /\ \E p \in Paths : IsDir(fs, p)
    /\ AllExist(fs, Paths)

----------------------------------------------------------------------------
\* A pending batch declares the outputs outs and has a process still running.
PendingFor(outs) ==
    \E i \in DOMAIN open_proc_list :
        /\ open_proc_list[i].output_files_or_dirs = outs
        /\ \E j \in DOMAIN open_proc_list[i].procs :
              proc[open_proc_list[i].procs[j]].status = "running"

\* C38: a run() that passes its input check is skipped exactly when it
\* declares outputs, all of them exist when it is called and skip_if_exist
\* is set, and goes on to its commands otherwise; the pending list does not
\* enter: with a running process of a pending batch that declares the same
\* outputs, the call goes on to spawn when an output is not there yet, and
\* is skipped when they all are.
C38_SkipIgnoresPendingList ==
    [][(RunIsCalled /\ ~InputMissing(fs, call'))
       => LET outs == call'.output_files_or_dirs
              skip == outs # {} /\ AllExist(fs, outs) /\ call'.skip_if_exist
          IN  /\ skip => pc' = "returned" /\ result'.kind = "ok" /\ NothingSpawned
              /\ ~skip => pc' = "spawn"
              /\ (PendingFor(outs) /\ outs # {} /\ call'.skip_if_exist)
                 => (pc' = "returned") = AllExist(fs, outs)]_vars

\* A run() has been skipped while the process of a pending batch that
\* declares the same output, and has created it, is still running.
C38_Witness ==
    /\ pc = "returned" /\ result.op = "run" /\ result.kind = "ok"
    /\ call.skip_if_exist /\ call.output_files_or_dirs = {"a"}
    /\ PendingFor({"a"}) /\ fs["a"] = NewFile

----------------------------------------------------------------------------
\* The thread is inside run() or wait().
InCall == pc \in {"spawn", "shell_c", "validate", "wait"}

\* C39: when every spawned command exits in the end, a run() or wait() in
\* progress comes to return or raise; a step spawns at most the commands of
\* the call, an asynchronous run() all at once and a synchronous one one by
\* one, never more than call.n in all and none after the call has returned.
C39_CallsTerminate ==
    /\ InCall ~> pc = "returned"
    /\ [][/\ spawned' - spawned <= IF pc # "spawn" THEN 0
                                   ELSE IF call.asynchronous THEN call.n ELSE 1
          /\ (pc' \in {"spawn", "shell_c", "validate"} /\ ~call'.asynchronous)
             => Len(procs') <= call'.n]_vars

\* A synchronous run() of two commands with the echo has returned, and the
\* chunk each command wrote is on standard output.
C39_Witness ==
    /\ pc = "returned" /\ result.op = "run" /\ result.kind = "ok"
    /\ ~call.asynchronous /\ call.n = 2 /\ Tee
    /\ \A q \in Pids : Occurrences(stdout, Chunk(q)) = 1

====
